---- MODULE Spec2Model ----
(***************************************************************************)
(* Model of the file-parser agent's normalisation pipeline: the file       *)
(* validator (src/utils/validation.py), the parser capability contract and *)
(* the four parser variants (src/parsers), and the parsing engine that     *)
(* validates, dispatches, parses and enriches (src/services).              *)
(*                                                                         *)
(* A file name is a sequence of tokens in which "." stands for a dot and   *)
(* every other token for a run of non-dot characters, so that              *)
(* <<"report", ".", "PDF">> is the name report.PDF and <<".", "pdf">> the  *)
(* hidden file .pdf.  An extension is the token sequence <<".", w>>; the   *)
(* empty sequence is the empty string.                                     *)
(***************************************************************************)
EXTENDS Integers, Sequences, FiniteSets, TLC

VARIABLES
    hasMagic,    \* HAS_MAGIC: the magic-byte library could be imported
    validator,   \* the FileValidator instance: max_size_bytes, allowed_extensions
    file,        \* the path an operation is applied to, as the file system shows it
    variant,     \* the parser class an operation of the parser contract is applied to
    src,         \* what the parsing library finds in the file once it is opened
    engine,      \* the ParsingEngine instance: enable_vision, _vision_service
    visionEnv,   \* the vision adapter's surroundings: SDK importable, API key set
    zone,        \* the host's time zone: "fixed" offset, or "fallback" (clocks set back)
    clock,       \* the UTC time a document created now is stamped with
    document,    \* the ParsedDocument the caller holds
    outputs,     \* the output directory: file name -> what the file holds
    saves,       \* the number of save() calls made so far
    pc,          \* "ready" before the operation, "done" after it
    op,          \* the operation that was applied
    ret          \* what the operation returned or raised

vars ==
    <<hasMagic, validator, file, variant, src, engine, visionEnv, zone, clock, document,
      outputs, saves, pc, op, ret>>

Range(s) == {s[i] : i \in DOMAIN s}

None == "None"

-----------------------------------------------------------------------------
(* src/config.py *)

MAX_FILE_SIZE_MB == 50

MAX_FILE_SIZE_BYTES == MAX_FILE_SIZE_MB * 1024 * 1024

Families == <<"pdf", "word", "excel", "powerpoint">>

SUPPORTED_EXTENSIONS ==
    [family \in Range(Families) |->
        CASE family = "pdf" -> << <<".", "pdf">> >>
          [] family = "word" -> << <<".", "docx">>, <<".", "doc">> >>
          [] family = "excel" -> << <<".", "xlsx">>, <<".", "xls">> >>
          [] family = "powerpoint" -> << <<".", "pptx">>, <<".", "ppt">> >>]

RECURSIVE Flatten(_)
Flatten(seqs) ==
    IF seqs = <<>> THEN <<>> ELSE Head(seqs) \o Flatten(Tail(seqs))

OUTPUT_FORMATS == <<"json", "markdown", "csv", "txt">>

ALL_SUPPORTED_EXTENSIONS ==
    Flatten([i \in DOMAIN Families |-> SUPPORTED_EXTENSIONS[Families[i]]])

-----------------------------------------------------------------------------
(* Path.suffix and str.lower *)

Dots(name) == {i \in DOMAIN name : name[i] = "."}

LastDot(name) == CHOOSE i \in Dots(name) : \A j \in Dots(name) : j <= i

\* PurePath.suffix: the last dot and what follows it, unless the name has no
\* dot, starts with its last dot or ends with it.
Suffix(name) ==
    IF Dots(name) = {} THEN <<>>
    ELSE IF 1 < LastDot(name) /\ LastDot(name) < Len(name)
         THEN SubSeq(name, LastDot(name), Len(name))
         ELSE <<>>

LowerToken(t) ==
    CASE t = "PDF" -> "pdf"
      [] t = "Docx" -> "docx"
      [] t = "DOC" -> "doc"
      [] t = "XLS" -> "xls"
      [] t = "Xlsx" -> "xlsx"
      [] t = "PPTX" -> "pptx"
      [] t = "Ppt" -> "ppt"
      [] t = "TXT" -> "txt"
      [] t = "JSON" -> "json"
      [] t = "Markdown" -> "markdown"
      [] t = "CSV" -> "csv"
      [] OTHER -> t

Lower(s) == [i \in DOMAIN s |-> LowerToken(s[i])]

-----------------------------------------------------------------------------
(* src/utils/validation.py *)

MIME_TYPE_MAP ==
    [mime \in {"application/pdf",
               "application/vnd.openxmlformats-officedocument.wordprocessingml.document",
               "application/msword",
               "application/vnd.openxmlformats-officedocument.spreadsheetml.sheet",
               "application/vnd.ms-excel",
               "application/vnd.openxmlformats-officedocument.presentationml.presentation",
               "application/vnd.ms-powerpoint"} |->
        CASE mime = "application/pdf" -> <<".", "pdf">>
          [] mime = "application/vnd.openxmlformats-officedocument.wordprocessingml.document"
               -> <<".", "docx">>
          [] mime = "application/msword" -> <<".", "doc">>
          [] mime = "application/vnd.openxmlformats-officedocument.spreadsheetml.sheet"
               -> <<".", "xlsx">>
          [] mime = "application/vnd.ms-excel" -> <<".", "xls">>
          [] mime = "application/vnd.openxmlformats-officedocument.presentationml.presentation"
               -> <<".", "pptx">>
          [] mime = "application/vnd.ms-powerpoint" -> <<".", "ppt">>]

\* FileValidator.__init__: a falsy allowed_extensions (None, []) gives the default.
FileValidatorInit(max_size_bytes, allowed_extensions) ==
    [max_size_bytes |-> max_size_bytes,
     allowed_extensions |->
        IF allowed_extensions = <<>> THEN ALL_SUPPORTED_EXTENSIONS
        ELSE allowed_extensions]

Accept == [ok |-> TRUE, reason |-> None]

Reject(reason) == [ok |-> FALSE, reason |-> reason]

RECURSIVE FamilyFrom(_, _)
FamilyFrom(ext, i) ==
    IF i > Len(Families) THEN None
    ELSE IF ext \in Range(SUPPORTED_EXTENSIONS[Families[i]]) THEN Families[i]
    ELSE FamilyFrom(ext, i + 1)

get_format_family(ext) == FamilyFrom(ext, 1)

get_file_type(name) == get_format_family(Lower(Suffix(name)))

validate_size_NoEmptyCheck(f, v) ==
    IF f.size > v.max_size_bytes THEN Reject("File too large") ELSE Accept

validate_size(f, v) ==
    IF f.size = 0 THEN Reject("File is empty")
    ELSE IF f.size > v.max_size_bytes THEN Reject("File too large")
    ELSE Accept

validate_extension(f, v) ==
    LET ext == Lower(Suffix(f.name)) IN
    IF ext = <<>> THEN Reject("File has no extension")
    ELSE IF ext \notin Range(v.allowed_extensions) THEN Reject("Unsupported file type")
    ELSE Accept

validate_content_type_ByExtension(f, magic) ==
    IF ~magic THEN Accept
    ELSE IF f.mime = "raises" THEN Accept
    ELSE IF f.mime \in DOMAIN MIME_TYPE_MAP
              /\ Lower(Suffix(f.name)) # MIME_TYPE_MAP[f.mime]
         THEN Reject("File content doesn't match extension")
    ELSE Accept

validate_content_type_RejectsUnknown(f, magic) ==
    IF ~magic THEN Accept
    ELSE IF f.mime = "raises" THEN Accept
    ELSE IF f.mime \notin DOMAIN MIME_TYPE_MAP
         THEN Reject("File content doesn't match extension")
    ELSE IF get_format_family(Lower(Suffix(f.name)))
               # get_format_family(MIME_TYPE_MAP[f.mime])
         THEN Reject("File content doesn't match extension")
    ELSE Accept

validate_content_type(f, magic) ==
    IF ~magic THEN Accept
    ELSE IF f.mime = "raises" THEN Accept
    ELSE IF f.mime \in DOMAIN MIME_TYPE_MAP
              /\ get_format_family(Lower(Suffix(f.name)))
                    # get_format_family(MIME_TYPE_MAP[f.mime])
         THEN Reject("File content doesn't match extension")
    ELSE Accept

validate_ExtensionFirst(f, v, magic) ==
    IF f.kind = "missing" THEN Reject("File not found")
    ELSE IF f.kind # "file" THEN Reject("Not a file")
    ELSE IF ~validate_extension(f, v).ok THEN validate_extension(f, v)
    ELSE IF ~validate_size(f, v).ok THEN validate_size(f, v)
    ELSE IF ~validate_content_type(f, magic).ok THEN validate_content_type(f, magic)
    ELSE Accept

validate(f, v, magic) ==
    IF f.kind = "missing" THEN Reject("File not found")
    ELSE IF f.kind # "file" THEN Reject("Not a file")
    ELSE IF ~validate_size(f, v).ok THEN validate_size(f, v)
    ELSE IF ~validate_extension(f, v).ok THEN validate_extension(f, v)
    ELSE IF ~validate_content_type(f, magic).ok THEN validate_content_type(f, magic)
    ELSE Accept

-----------------------------------------------------------------------------
(* src/parsers/base.py and the four parser classes *)

ParserClasses == {"PDFParser", "WordParser", "ExcelParser", "PowerPointParser"}

ClassExtensions_CurrentFormatsOnly(cls) ==
    CASE cls = "PDFParser" -> << <<".", "pdf">> >>
      [] cls = "WordParser" -> << <<".", "docx">> >>
      [] cls = "ExcelParser" -> << <<".", "xlsx">> >>
      [] cls = "PowerPointParser" -> << <<".", "pptx">> >>

\* The class attribute SUPPORTED_EXTENSIONS of each parser class.
ClassExtensions(cls) ==
    CASE cls = "PDFParser" -> << <<".", "pdf">> >>
      [] cls = "WordParser" -> << <<".", "docx">>, <<".", "doc">> >>
      [] cls = "ExcelParser" -> << <<".", "xlsx">>, <<".", "xls">> >>
      [] cls = "PowerPointParser" -> << <<".", "pptx">>, <<".", "ppt">> >>

\* The file_type each class gives the documents it creates.
ClassFileType(cls) ==
    CASE cls = "PDFParser" -> "pdf"
      [] cls = "WordParser" -> "word"
      [] cls = "ExcelParser" -> "excel"
      [] cls = "PowerPointParser" -> "powerpoint"

can_parse_CaseSensitive(cls, name) == Suffix(name) \in Range(ClassExtensions(cls))

can_parse(cls, name) == Lower(Suffix(name)) \in Range(ClassExtensions(cls))

validate_file_ExtensionFirst(cls, f) ==
    IF Lower(Suffix(f.name)) \notin Range(ClassExtensions(cls)) THEN "ValueError"
    ELSE IF f.kind = "missing" THEN "FileNotFoundError"
    ELSE "ok"

\* BaseDocumentParser._validate_file: what it raises, or "ok".
validate_file(cls, f) ==
    IF f.kind = "missing" THEN "FileNotFoundError"
    ELSE IF Lower(Suffix(f.name)) \notin Range(ClassExtensions(cls)) THEN "ValueError"
    ELSE "ok"

\* PyPDF2, python-docx, openpyxl and python-pptx are install_requires of the
\* package, so the HAS_* guard of each constructor passes.
HAS_PARSER_LIBRARY == TRUE

\* cls(file_path): what the constructor raises, or "ok".
ParserInit(cls, f) ==
    IF ~HAS_PARSER_LIBRARY THEN "ImportError" ELSE validate_file(cls, f)

EmptyDict == [k \in {} |-> None]

\* ParsedDocument(filename=..., file_type=...): every other field at its default.
ParsedDocument(filename, file_type, now) ==
    [filename |-> filename, file_type |-> file_type, parsed_at |-> now,
     metadata |-> EmptyDict, content |-> EmptyDict,
     tables |-> <<>>, images |-> <<>>, errors |-> <<>>]

Returned(value) == [raised |-> FALSE, value |-> value, error |-> None]

Raised(error) == [raised |-> TRUE, value |-> None, error |-> error]

\* The units of a source document are its pages, paragraphs, sheets or slides;
\* reading a unit gives text ("text"), nothing ("blank") or an exception ("raises").
RaisingUnits(s) == {i \in DOMAIN s.units : s.units[i] = "raises"}

UnitsRaise(s) == RaisingUnits(s) # {}

\* A unit that is neither blank nor raising holds its text.
UnitText(u) == IF u \in {"blank", "raises"} THEN "" ELSE u

\* str.startswith('Heading') on a style name, a name being a sequence of words
\* and separators.
StartsWithHeading(style) == Len(style) >= 1 /\ style[1] = "Heading"

\* str.replace('Heading ', ''): every occurrence is removed, left to right.
RECURSIVE RemoveHeadingPrefix(_)
RemoveHeadingPrefix(style) ==
    IF style = <<>> THEN <<>>
    ELSE IF Len(style) >= 2 /\ style[1] = "Heading" /\ style[2] = " "
         THEN RemoveHeadingPrefix(SubSeq(style, 3, Len(style)))
         ELSE <<style[1]>> \o RemoveHeadingPrefix(Tail(style))

Digits == [d \in {"1", "2", "3", "9"} |->
             CASE d = "1" -> 1 [] d = "2" -> 2 [] d = "3" -> 3 [] d = "9" -> 9]

\* int(text): the number a string of digits denotes, 0 standing for ValueError
\* (no style name of the model denotes 0).
IntOf(text) ==
    IF Len(text) = 1 /\ text[1] \in DOMAIN Digits THEN Digits[text[1]] ELSE 0

\* The heading level _extract_paragraphs stores: the number after 'Heading ',
\* or 1 when int() raises ValueError.
HeadingLevel(style) ==
    IF IntOf(RemoveHeadingPrefix(style)) = 0 THEN 1
    ELSE IntOf(RemoveHeadingPrefix(style))

\* The entry _extract_paragraphs builds for paragraph i (enumerate counts from 0).
ParagraphEntry(s, i) ==
    IF StartsWithHeading(s.styles[i])
    THEN [index |-> i - 1, text |-> UnitText(s.units[i]), style |-> s.styles[i],
          is_heading |-> TRUE, heading_level |-> HeadingLevel(s.styles[i])]
    ELSE [index |-> i - 1, text |-> UnitText(s.units[i]), style |-> s.styles[i]]

\* WordParser._extract_paragraphs: the paragraphs with text, in document order.
RECURSIVE extract_paragraphs(_, _)
extract_paragraphs(s, i) ==
    IF i > Len(s.units) THEN <<>>
    ELSE IF s.units[i] # "blank"
         THEN <<ParagraphEntry(s, i)>> \o extract_paragraphs(s, i + 1)
         ELSE extract_paragraphs(s, i + 1)

\* The lazily loaded reader, document, workbook or presentation: the first
\* access opens the file, and raises when the library cannot read it.
OpenRaises(s) == "open" \in s.faults

extract_metadata(cls, s) ==
    IF OpenRaises(s) THEN Raised("open")
    ELSE IF "metadata" \in s.faults THEN Raised("metadata")
    ELSE Returned(
        CASE cls = "PDFParser" -> [page_count |-> Len(s.units)]
          [] cls = "WordParser" -> [paragraph_count |-> Len(s.units)]
          [] cls = "ExcelParser" -> [sheet_count |-> Len(s.units)]
          [] cls = "PowerPointParser" -> [slide_count |-> Len(s.units)])

\* Cell values that are not str, int, float or bool: a datetime, which has
\* isoformat(), and a timedelta, which has not.
Temporal == {"datetime(2024, 1, 1, 0, 0)"}

NonPrimitive == Temporal \cup {"timedelta(days=1)"}

isoformat(v) == "2024-01-01T00:00:00"

\* str(v): a string is itself, None is 'None'.
Str(v) ==
    CASE v \in Temporal -> "2024-01-01 00:00:00"
      [] v = "timedelta(days=1)" -> "1 day, 0:00:00"
      [] OTHER -> v

\* The conversion of one cell in _extract_sheet_data.
ConvertCell(v) ==
    IF v = None THEN None
    ELSE IF v \in Temporal THEN isoformat(v)
    ELSE IF v \in NonPrimitive THEN Str(v)
    ELSE v

\* any(v is not None for v in row)
AnyValue(row) == \E c \in DOMAIN row : row[c] # None

\* sheet.max_row and sheet.max_column: 1 for a sheet without cells.
max_row(cells) == IF cells = <<>> THEN 1 ELSE Len(cells)

max_column(cells) == IF cells = <<>> THEN 1 ELSE Len(cells[1])

\* ExcelParser._extract_sheet_data (max_rows=None): the rows of iter_rows()
\* that hold a value, each cell converted.
extract_sheet_data(cells) ==
    SelectSeq([r \in DOMAIN cells |-> [c \in DOMAIN cells[r] |-> ConvertCell(cells[r][c])]],
              AnyValue)

SheetTable_FirstRowIsHeader(name, cells) ==
    [name |-> name, rows |-> max_row(cells), columns |-> max_column(cells),
     headers |-> IF cells = <<>> THEN <<>> ELSE Head(cells),
     data |-> IF cells = <<>> THEN <<>> ELSE SelectSeq(Tail(cells), AnyValue)]

\* The table ExcelParser.extract_tables builds for one worksheet.
SheetTable(name, cells) ==
    [name |-> name, rows |-> max_row(cells), columns |-> max_column(cells),
     headers |-> IF SelectSeq(cells, AnyValue) = <<>> THEN <<>>
                 ELSE Head(SelectSeq(cells, AnyValue)),
     data |-> IF SelectSeq(cells, AnyValue) = <<>> THEN <<>>
              ELSE Tail(SelectSeq(cells, AnyValue))]

\* str.strip() on a cell's text.
Strip(text) == IF text = " Ana " THEN "Ana" ELSE text

\* _extract_table_from_shape of the PowerPoint parser, and the table_data of
\* WordParser.extract_tables without its index: cells is what table.rows and
\* row.cells give (a table has a row, and each row a cell for every column).
TableData(cells) ==
    [rows |-> Len(cells), columns |-> IF cells = <<>> THEN 0 ELSE Len(cells[1]),
     data |-> cells]

\* row_data = [cell.text.strip() for cell in row.cells]
StrippedCells(cells) ==
    [r \in DOMAIN cells |-> [c \in DOMAIN cells[r] |-> Strip(cells[r][c])]]

\* PDFParser._extract_pages: one entry per page, in page order; the first page
\* whose extract_text() raises ends the loop with that exception.
extract_pages(s) ==
    IF OpenRaises(s) THEN Raised("open")
    ELSE IF UnitsRaise(s) THEN Raised("content")
    ELSE Returned([i \in DOMAIN s.units |->
                      [page_number |-> i, text |-> UnitText(s.units[i])]])

\* The indices of the tables, or charts, that sit on slide i.
RECURSIVE OnSlide(_, _, _)
OnSlide(frames, i, k) ==
    IF k > Len(frames) THEN <<>>
    ELSE (IF frames[k].slide = i THEN <<k>> ELSE <<>>) \o OnSlide(frames, i, k + 1)

Charts(s) == IF "charts" \in DOMAIN s THEN s.charts ELSE <<>>

\* slide.shapes of slide i as python-pptx gives them: a text box with the
\* slide's text, the pictures (all on the first slide), and one graphic frame
\* for each table and each chart. Only a picture has shape_type PICTURE and
\* only a graphic frame has has_table or has_chart, one of the two; pictures
\* and graphic frames have no text attribute.
SlideShapes(s, i) ==
    <<[name |-> 0, shape_type |-> "TEXT_BOX", has_table |-> FALSE, has_chart |-> FALSE,
       text |-> UnitText(s.units[i])]>>
    \o (IF i = 1
        THEN [k \in DOMAIN s.images |->
                [name |-> k, shape_type |-> "PICTURE", has_table |-> FALSE,
                 has_chart |-> FALSE, blob |-> s.images[k]]]
        ELSE <<>>)
    \o [j \in DOMAIN OnSlide(s.grids, i, 1) |->
          [name |-> 10 + OnSlide(s.grids, i, 1)[j], shape_type |-> "TABLE",
           has_table |-> TRUE, has_chart |-> FALSE,
           cells |-> s.grids[OnSlide(s.grids, i, 1)[j]].cells]]
    \o [j \in DOMAIN OnSlide(Charts(s), i, 1) |->
          [name |-> 20 + OnSlide(Charts(s), i, 1)[j], shape_type |-> "CHART",
           has_table |-> FALSE, has_chart |-> TRUE]]

\* PowerPointParser._extract_image_info
extract_image_info(shape) ==
    IF shape.blob = "blob" THEN [content_type |-> "image/png", blob |-> "b64"]
    ELSE EmptyDict

\* PowerPointParser._extract_table_from_shape
extract_table_from_shape(shape) == TableData(shape.cells)

\* The four flags and the text _extract_shape_info starts from.
ShapeFlags(shape) ==
    [name |-> shape.name,
     text |-> IF "text" \notin DOMAIN shape THEN None
              ELSE IF Strip(shape.text) = "" THEN None
              ELSE shape.text,
     is_image |-> shape.shape_type = "PICTURE",
     is_table |-> shape.has_table,
     is_chart |-> shape.has_chart]

\* PowerPointParser._extract_shape_info: each flag that is set adds its key.
extract_shape_info(shape) ==
    LET info == ShapeFlags(shape)
        keys == {k \in {"image_info", "table_data", "chart_info"} :
                    \/ k = "image_info" /\ info.is_image
                    \/ k = "table_data" /\ info.is_table
                    \/ k = "chart_info" /\ info.is_chart}
    IN  [k \in DOMAIN info \cup keys |->
            IF k \in DOMAIN info THEN info[k]
            ELSE IF k = "image_info" THEN extract_image_info(shape)
            ELSE IF k = "table_data" THEN extract_table_from_shape(shape)
            ELSE [chart_type |-> "chart", has_title |-> FALSE, title |-> None]]

slide_data_ImagesByText(s, i) ==
    LET shapes == [k \in DOMAIN SlideShapes(s, i) |->
                      extract_shape_info(SlideShapes(s, i)[k])]
        tables == SelectSeq(shapes, LAMBDA info : info.is_table)
        texts == SelectSeq(shapes, LAMBDA info : info.text # None)
    IN  [slide_number |-> i,
         layout |-> "Blank",
         title |-> None,
         content |-> [k \in DOMAIN texts |-> texts[k].text],
         shapes |-> shapes,
         notes |-> None,
         images |-> SelectSeq(shapes, LAMBDA info : info.text # None),
         tables |-> [k \in DOMAIN tables |-> tables[k].table_data],
         charts |-> SelectSeq(shapes, LAMBDA info : info.is_chart)]

\* The slide_data _extract_slides builds for slide i: a descriptor per shape,
\* fanned out into content, images, tables and charts.
slide_data(s, i) ==
    LET shapes == [k \in DOMAIN SlideShapes(s, i) |->
                      extract_shape_info(SlideShapes(s, i)[k])]
        tables == SelectSeq(shapes, LAMBDA info : info.is_table)
        texts == SelectSeq(shapes, LAMBDA info : info.text # None)
    IN  [slide_number |-> i,
         layout |-> "Blank",
         title |-> None,
         content |-> [k \in DOMAIN texts |-> texts[k].text],
         shapes |-> shapes,
         notes |-> None,
         images |-> SelectSeq(shapes, LAMBDA info : info.is_image),
         tables |-> [k \in DOMAIN tables |-> tables[k].table_data],
         charts |-> SelectSeq(shapes, LAMBDA info : info.is_chart)]

\* PowerPointParser._extract_slides
extract_slides(s) == [i \in DOMAIN s.units |-> slide_data(s, i)]

\* The value each parse() assigns to doc.content.
extract_content(cls, s) ==
    IF cls = "PDFParser"
    THEN IF extract_pages(s).raised THEN extract_pages(s)
         ELSE Returned([total_pages |-> Len(s.units), pages |-> extract_pages(s).value])
    ELSE IF OpenRaises(s) THEN Raised("open")
    ELSE IF UnitsRaise(s) THEN Raised("content")
    ELSE Returned(
        CASE cls = "WordParser" ->
               [paragraphs |-> extract_paragraphs(s, 1), sections |-> <<>>]
          [] cls = "ExcelParser" ->
               [sheet_count |-> Len(s.units),
                sheet_names |-> [i \in DOMAIN s.units |-> i],
                sheets |-> [i \in DOMAIN s.units |->
                              [name |-> i,
                               max_row |-> max_row(s.grids[i].cells),
                               max_column |-> max_column(s.grids[i].cells),
                               data |-> extract_sheet_data(s.grids[i].cells)]]]
          [] cls = "PowerPointParser" ->
               [slide_count |-> Len(s.units), slides |-> extract_slides(s)])

\* extract_tables() of each class: PDFParser keeps the base default; Word
\* tables carry their index, worksheets their name, PowerPoint tables their
\* slide and shape.
extract_tables(cls, s) ==
    IF cls = "PDFParser" THEN Returned(<<>>)
    ELSE IF OpenRaises(s) THEN Raised("open")
    ELSE IF "tables" \in s.faults THEN Raised("tables")
    ELSE Returned(
        CASE cls = "WordParser" ->
               [i \in DOMAIN s.grids |->
                  [index |-> i - 1, rows |-> TableData(s.grids[i].cells).rows,
                   columns |-> TableData(s.grids[i].cells).columns,
                   data |-> StrippedCells(TableData(s.grids[i].cells).data)]]
          [] cls = "ExcelParser" ->
               SelectSeq([i \in DOMAIN s.grids |-> SheetTable(i, s.grids[i].cells)],
                         LAMBDA table : table.rows # 0 /\ table.columns # 0)
          [] cls = "PowerPointParser" ->
               [i \in DOMAIN s.grids |->
                  [rows |-> TableData(s.grids[i].cells).rows,
                   columns |-> TableData(s.grids[i].cells).columns,
                   data |-> TableData(s.grids[i].cells).data,
                   slide_number |-> s.grids[i].slide, shape_name |-> i]])

extract_images(cls, s) ==
    IF cls = "ExcelParser" THEN Returned(<<>>)
    ELSE IF OpenRaises(s) THEN Raised("open")
    ELSE IF "images" \in s.faults THEN Raised("images")
    ELSE Returned([i \in DOMAIN s.images |->
                     IF s.images[i] = "blob"
                     THEN [shape_name |-> i, content_type |-> "image/png", blob |-> "b64"]
                     ELSE [shape_name |-> i]])

Steps(cls) ==
    IF cls = "ExcelParser" THEN <<"metadata", "content", "tables">>
    ELSE <<"metadata", "content", "tables", "images">>

\* One statement of the try block of parse().
RunStep(cls, s, step) ==
    CASE step = "metadata" -> extract_metadata(cls, s)
      [] step = "content" -> extract_content(cls, s)
      [] step = "tables" -> extract_tables(cls, s)
      [] step = "images" -> extract_images(cls, s)

Assign(doc, step, value) ==
    CASE step = "metadata" -> [doc EXCEPT !.metadata = value]
      [] step = "content" -> [doc EXCEPT !.content = value]
      [] step = "tables" -> [doc EXCEPT !.tables = value]
      [] step = "images" -> [doc EXCEPT !.images = value]

RECURSIVE TryBlock_Reraise(_, _, _, _)
TryBlock_Reraise(cls, s, doc, i) ==
    IF i > Len(Steps(cls)) THEN Returned(doc)
    ELSE IF RunStep(cls, s, Steps(cls)[i]).raised
         THEN IF Steps(cls)[i] = "images"
              THEN Raised(RunStep(cls, s, Steps(cls)[i]).error)
              ELSE Returned([doc EXCEPT !.errors =
                               Append(@, RunStep(cls, s, Steps(cls)[i]).error)])
    ELSE TryBlock_Reraise(cls, s,
            Assign(doc, Steps(cls)[i], RunStep(cls, s, Steps(cls)[i]).value), i + 1)

RECURSIVE TryBlock_RestampsOnError(_, _, _, _)
TryBlock_RestampsOnError(cls, s, doc, i) ==
    IF i > Len(Steps(cls)) THEN Returned(doc)
    ELSE IF RunStep(cls, s, Steps(cls)[i]).raised
         THEN Returned([doc EXCEPT !.errors =
                          Append(@, RunStep(cls, s, Steps(cls)[i]).error),
                        !.parsed_at = @ + 1])
    ELSE TryBlock_RestampsOnError(cls, s,
            Assign(doc, Steps(cls)[i], RunStep(cls, s, Steps(cls)[i]).value), i + 1)

\* The try/except of parse(): the statements run in order, the first exception
\* leaves the block and the handler appends str(e) to doc.errors.
RECURSIVE TryBlock(_, _, _, _)
TryBlock(cls, s, doc, i) ==
    IF i > Len(Steps(cls)) THEN Returned(doc)
    ELSE IF RunStep(cls, s, Steps(cls)[i]).raised
         THEN Returned([doc EXCEPT !.errors =
                          Append(@, RunStep(cls, s, Steps(cls)[i]).error)])
    ELSE TryBlock(cls, s,
            Assign(doc, Steps(cls)[i], RunStep(cls, s, Steps(cls)[i]).value), i + 1)

\* parser.parse() of a constructed parser of class cls on the file named name.
parse(cls, name, s, now) ==
    TryBlock(cls, s, ParsedDocument(name, ClassFileType(cls), now), 1)

\* extract_text(): the non-blank text of every unit, in order, joined.
extract_text(cls, s) ==
    IF OpenRaises(s) THEN Raised("open")
    ELSE IF UnitsRaise(s) THEN Raised("content")
    ELSE Returned(SelectSeq(s.units, LAMBDA u : u # "blank"))

-----------------------------------------------------------------------------
(* src/services/parsing_engine.py *)

PARSER_REGISTRY ==
    [family \in {"pdf", "word", "excel", "powerpoint"} |->
        CASE family = "pdf" -> "PDFParser"
          [] family = "word" -> "WordParser"
          [] family = "excel" -> "ExcelParser"
          [] family = "powerpoint" -> "PowerPointParser"]

\* ParsingEngine.__init__: the engine's validator is a FileValidator with defaults.
EngineValidator == FileValidatorInit(MAX_FILE_SIZE_BYTES, <<>>)

\* What an engine operation hands back: the exception it raised or "returned",
\* the message, the parser instance it built, its value and the calls it made.
Outcome(outcome, reason, parser, value, events) ==
    [outcome |-> outcome, reason |-> reason, parser |-> parser,
     value |-> value, events |-> events]

get_parser_AnyClass(f) ==
    IF get_file_type(f.name) \notin DOMAIN PARSER_REGISTRY
    THEN Outcome("ok", None, "PDFParser", None, <<"get_file_type", "PDFParser">>)
    ELSE IF ParserInit(PARSER_REGISTRY[get_file_type(f.name)], f) # "ok"
    THEN Outcome(ParserInit(PARSER_REGISTRY[get_file_type(f.name)], f),
                 "Parser construction failed", None, None,
                 <<"get_file_type", PARSER_REGISTRY[get_file_type(f.name)]>>)
    ELSE Outcome("ok", None, PARSER_REGISTRY[get_file_type(f.name)], None,
                 <<"get_file_type", PARSER_REGISTRY[get_file_type(f.name)]>>)

\* ParsingEngine._get_parser: the events name the class whose constructor ran.
get_parser(f) ==
    IF get_file_type(f.name) \notin DOMAIN PARSER_REGISTRY
    THEN Outcome("ValueError", "No parser available for file type", None, None,
                 <<"get_file_type">>)
    ELSE IF ParserInit(PARSER_REGISTRY[get_file_type(f.name)], f) # "ok"
    THEN Outcome(ParserInit(PARSER_REGISTRY[get_file_type(f.name)], f),
                 "Parser construction failed", None, None,
                 <<"get_file_type", PARSER_REGISTRY[get_file_type(f.name)]>>)
    ELSE Outcome("ok", None, PARSER_REGISTRY[get_file_type(f.name)], None,
                 <<"get_file_type", PARSER_REGISTRY[get_file_type(f.name)]>>)

\* The vision_service property: the first read of an enabled engine builds the
\* service; without the SDK that raises ImportError and disables vision.
vision_service(eng, env) ==
    IF eng.enable_vision /\ eng.vision_service = None
    THEN IF ~env.sdk THEN [eng EXCEPT !.enable_vision = FALSE]
         ELSE [eng EXCEPT !.vision_service = IF env.key THEN "client" ELSE "no_client"]
    ELSE eng

Get(dict, key) == IF key \in DOMAIN dict THEN dict[key] ELSE None

AnalyzeImage_ResetsOnFailure(img, outcome) ==
    IF Get(img, "blob") = None THEN img
    ELSE CASE outcome = "success" ->
                ("description" :> "described") @@ ("ai_analyzed" :> "True") @@ img
           [] OTHER ->
                ("ai_error" :> "error")
                @@ [k \in DOMAIN img \ {"description", "ai_analyzed"} |-> img[k]]

\* The body of the loop of _analyze_document_images for one image.
AnalyzeImage(img, outcome) ==
    IF Get(img, "blob") = None THEN img
    ELSE CASE outcome = "success" ->
                ("description" :> "described") @@ ("ai_analyzed" :> "True") @@ img
           [] outcome = "failure" ->
                ("description" :> "Image analysis failed") @@ ("ai_error" :> "error") @@ img
           [] outcome = "raises" ->
                ("description" :> "Error analyzing image") @@ ("ai_error" :> "raised") @@ img

analyze_document_images_SkipsBlobless(doc, eng, env, outcomes) ==
    IF vision_service(eng, env).vision_service # "client" THEN doc
    ELSE [doc EXCEPT !.images =
            SelectSeq([i \in DOMAIN doc.images |->
                          AnalyzeImage(doc.images[i], outcomes[i])],
                      LAMBDA img : "blob" \in DOMAIN img)]

\* ParsingEngine._analyze_document_images; outcomes[i] is what the adapter does
\* with image i.
analyze_document_images(doc, eng, env, outcomes) ==
    IF vision_service(eng, env).vision_service # "client" THEN doc
    ELSE [doc EXCEPT !.images =
            [i \in DOMAIN doc.images |-> AnalyzeImage(doc.images[i], outcomes[i])]]

\* The validation every engine operation starts with.
EngineValidate(f, magic) == validate(f, EngineValidator, magic)

EngineDispatch_BeforeValidation(f, magic) ==
    IF get_parser(f).outcome # "ok"
    THEN [get_parser(f) EXCEPT !.events = <<"validate">> \o @]
    ELSE IF ~EngineValidate(f, magic).ok
    THEN Outcome("ValidationError", EngineValidate(f, magic).reason,
                 get_parser(f).parser, None, <<"validate">> \o get_parser(f).events)
    ELSE [get_parser(f) EXCEPT !.events = <<"validate">> \o @]

\* The common head of parse, extract_text, extract_tables and extract_metadata:
\* validate, raise ValidationError(error) on failure, else _get_parser.
EngineDispatch(f, magic) ==
    IF ~EngineValidate(f, magic).ok
    THEN Outcome("ValidationError", EngineValidate(f, magic).reason, None, None,
                 <<"validate">>)
    ELSE [get_parser(f) EXCEPT !.events = <<"validate">> \o @]

\* The guard of the enrichment call in ParsingEngine.parse.
Enriches(parsedDoc, eng, analyze_images) ==
    analyze_images /\ eng.enable_vision /\ parsedDoc.images # <<>>

\* ParsingEngine.parse after a successful dispatch; document is what
\* parser.parse() returned.
EngineParseBody(d, parsedDoc, eng, env, analyze_images, outcomes) ==
    [outcome |-> "returned", reason |-> None, parser |-> d.parser,
     parsed |-> parsedDoc,
     value |-> IF Enriches(parsedDoc, eng, analyze_images)
               THEN analyze_document_images(parsedDoc, eng, env, outcomes)
               ELSE parsedDoc,
     events |-> d.events \o <<"parse">>
                \o (IF Enriches(parsedDoc, eng, analyze_images) THEN <<"analyze">>
                    ELSE <<>>)]

\* The engine after ParsingEngine.parse: enrichment reads the vision_service
\* property.
EngineAfterParse(parsedDoc, eng, env, analyze_images) ==
    IF Enriches(parsedDoc, eng, analyze_images) THEN vision_service(eng, env) ELSE eng

\* ParsingEngine.extract_text, extract_tables, extract_metadata after a
\* successful dispatch: the parser's method, its exception passed on.
EngineExtractBody(d, method, s) ==
    LET r == CASE method = "extract_text" -> extract_text(d.parser, s)
               [] method = "extract_tables" -> extract_tables(d.parser, s)
               [] method = "extract_metadata" -> extract_metadata(d.parser, s)
    IN  IF r.raised
        THEN Outcome("Exception", r.error, d.parser, None, d.events \o <<method>>)
        ELSE Outcome("returned", None, d.parser, r.value, d.events \o <<method>>)

-----------------------------------------------------------------------------
(* src/utils/output_manager.py *)

\* ParsedDocument.to_dict: a dict of the eight attributes.
to_dict(doc) ==
    [filename |-> doc.filename, file_type |-> doc.file_type, parsed_at |-> doc.parsed_at,
     metadata |-> doc.metadata, content |-> doc.content, tables |-> doc.tables,
     images |-> doc.images, errors |-> doc.errors]

\* The keys of the dicts of a document, each dict's keys in the order it was
\* filled in.
KeyOrder ==
    <<"filename", "file_type", "parsed_at", "metadata", "content", "tables", "images",
      "errors", "page_count", "paragraph_count", "sheet_count", "slide_count",
      "total_pages", "pages", "paragraphs", "sections", "sheet_names", "sheets", "slides">>

\* dict.items(): the keys of d in insertion order.
Keys(d) == SelectSeq(KeyOrder, LAMBDA k : k \in DOMAIN d)

\* isinstance(v, dict) and isinstance(v, list) for the value under a key.
DictKeys == {"metadata", "content"}

ListKeys ==
    {"tables", "images", "errors", "pages", "paragraphs", "sections", "sheet_names",
     "sheets", "slides"}

\* PurePath.stem: the name without its suffix.
PathStem(name) == SubSeq(name, 1, Len(name) - Len(Suffix(name)))

\* datetime.now().strftime('%Y%m%d_%H%M%S'), the clock counting seconds.
TimeStamps ==
    <<"20240101_000000", "20240101_000001", "20240101_000002", "20240101_000003",
      "20240101_000004", "20240101_000005">>

\* The same for the readings of the hour that a host whose clocks are set
\* back goes through twice.
LateStamps ==
    [now \in {3600, 3601, 3602, 3603, 7199} |->
        CASE now = 3600 -> "20240101_010000"
          [] now = 3601 -> "20240101_010001"
          [] now = 3602 -> "20240101_010002"
          [] now = 3603 -> "20240101_010003"
          [] now = 7199 -> "20240101_015959"]

strftime_ToTheMinute(now) == IF now \in DOMAIN LateStamps THEN LateStamps[3600] ELSE TimeStamps[1]

strftime(now) == IF now \in DOMAIN LateStamps THEN LateStamps[now] ELSE TimeStamps[now + 1]

\* datetime.now() and datetime.fromtimestamp(t): the naive local time of the
\* host at second t, in seconds since midnight. With a fixed UTC offset it
\* advances with t; on a host whose clocks are set back an hour after second 0
\* (the end of daylight saving time) second 0 reads 01:59:59 and second 1
\* reads 01:00:00. isoformat() of two such readings compares as they do.
LocalTime(tz, t) ==
    IF tz = "fixed" THEN t ELSE IF t = 0 THEN 7199 ELSE 3599 + t

ext_map ==
    [fmt \in {"json", "markdown", "csv", "txt"} |->
        CASE fmt = "json" -> <<".", "json">>
          [] fmt = "markdown" -> <<".", "md">>
          [] fmt = "csv" -> <<".", "csv">>
          [] fmt = "txt" -> <<".", "txt">>]

\* json.dump(..., default=str): a value json cannot encode is written as the
\* string str() gives; the parsers put such values only into table cells.
JsonDefault(v) == IF v \in NonPrimitive THEN Str(v) ELSE v

JsonRows(rows) == [r \in DOMAIN rows |-> [c \in DOMAIN rows[r] |-> JsonDefault(rows[r][c])]]

JsonTable(table) ==
    IF "headers" \in DOMAIN table
    THEN [table EXCEPT !.headers = [c \in DOMAIN @ |-> JsonDefault(@[c])],
                       !.data = JsonRows(@)]
    ELSE [table EXCEPT !.data = JsonRows(@)]

\* What _save_json writes, as json.load reads it back.
save_json(data) ==
    [data EXCEPT !.tables = [i \in DOMAIN @ |-> JsonTable(@[i])]]

\* An f-string: its literal text with {} for each value, and the values.
Fmt(markup, args) == [markup |-> markup, args |-> args]

\* A line without values.
Lit(text) == Fmt(<<text>>, <<>>)

\* A sequence of sequences, concatenated.
RECURSIVE Concat(_)
Concat(seqs) == IF seqs = <<>> THEN <<>> ELSE Head(seqs) \o Concat(Tail(seqs))

\* csv.writer.writerow: None is written as the empty field, any other value
\* as str() of it.
CsvField(v) == IF v = None THEN "" ELSE Str(v)

CsvRow(row) == [c \in DOMAIN row |-> CsvField(row[c])]

\* The rows _save_csv writes for one table: the headers if there are any, the
\* data, and an empty row.
CsvTable(table) ==
    (IF "headers" \notin DOMAIN table THEN <<>>
     ELSE IF table.headers = <<>> THEN <<>>
     ELSE <<CsvRow(table.headers)>>)
    \o [r \in DOMAIN table.data |-> CsvRow(table.data[r])]
    \o << <<>> >>

\* str(v) of a list, as one value.
StrOf(v) == [str |-> v]

\* OutputManager._flatten_dict of the dict under the key path prefix: the
\* (key, value) pairs in order.
RECURSIVE flatten_dict(_, _)
flatten_dict(d, prefix) ==
    Concat([i \in DOMAIN Keys(d) |->
        LET k == Keys(d)[i]
            new_key == IF prefix = <<>> THEN <<k>> ELSE prefix \o <<".", k>>
        IN  IF k \in DictKeys THEN flatten_dict(d[k], new_key)
            ELSE IF k \in ListKeys THEN << <<new_key, StrOf(d[k])>> >>
            ELSE << <<new_key, d[k]>> >>])

\* The rows _save_csv writes.
save_csv(data) ==
    IF data.tables = <<>>
    THEN << <<"Key", "Value">> >> \o flatten_dict(data, <<>>)
    ELSE Concat([i \in DOMAIN data.tables |-> CsvTable(data.tables[i])])

\* str(c) if c else '' for a cell.
CellText(v) == IF v \in {None, ""} THEN "" ELSE Str(v)

\* "| " + " | ".join(...) + " |" over the cells of a row.
RowLine(row) == Fmt(<<"| ", "{} | {}", " |">>, [c \in DOMAIN row |-> CellText(row[c])])

\* "| " + " | ".join(['---'] * n) + " |"
RuleLine(n) == Fmt(<<"| ", "--- | ---", " |">>, <<n>>)

\* '#' * n
Hashes(n) == [i \in 1..n |-> "#"]

\* dict.get(key, default) on a list-valued key.
GetList(dict, key) == IF key \in DOMAIN dict THEN dict[key] ELSE <<>>

\* OutputManager._pdf_to_markdown
pdf_to_markdown(content) ==
    <<Fmt(<<"## Content (", "{}", " pages)\n">>,
          <<IF "total_pages" \in DOMAIN content THEN content.total_pages
            ELSE Len(GetList(content, "pages"))>>)>>
    \o Concat([i \in DOMAIN GetList(content, "pages") |->
                 <<Fmt(<<"### Page ", "{}", "\n">>, <<content.pages[i].page_number>>),
                   Fmt(<<"{}">>, <<content.pages[i].text>>),
                   Lit("")>>])

word_to_markdown_FlatHeadings(content) ==
    <<Lit("## Content\n")>>
    \o Concat([i \in DOMAIN GetList(content, "paragraphs") |->
                 IF "is_heading" \in DOMAIN content.paragraphs[i]
                 THEN <<Fmt(Hashes(2) \o <<" ", "{}", "\n">>,
                            <<content.paragraphs[i].text>>)>>
                 ELSE <<Fmt(<<"{}">>, <<content.paragraphs[i].text>>), Lit("")>>])

\* OutputManager._word_to_markdown: a heading of level n becomes a header of
\* n + 1 hashes, any other paragraph its text and an empty line.
word_to_markdown(content) ==
    <<Lit("## Content\n")>>
    \o Concat([i \in DOMAIN GetList(content, "paragraphs") |->
                 IF "is_heading" \in DOMAIN content.paragraphs[i]
                 THEN <<Fmt(Hashes((IF "heading_level" \in DOMAIN content.paragraphs[i]
                                    THEN content.paragraphs[i].heading_level ELSE 2) + 1)
                               \o <<" ", "{}", "\n">>,
                            <<content.paragraphs[i].text>>)>>
                 ELSE <<Fmt(<<"{}">>, <<content.paragraphs[i].text>>), Lit("")>>])

\* OutputManager._excel_to_markdown: the first row of a sheet's data is the
\* header of its table.
excel_to_markdown(content) ==
    Concat([i \in DOMAIN GetList(content, "sheets") |->
              <<Fmt(<<"## ", "{}", "\n">>, <<content.sheets[i].name>>)>>
              \o (IF content.sheets[i].data = <<>> THEN <<>>
                  ELSE <<RowLine(Head(content.sheets[i].data)),
                         RuleLine(Len(Head(content.sheets[i].data)))>>
                       \o [r \in DOMAIN Tail(content.sheets[i].data) |->
                             RowLine(Tail(content.sheets[i].data)[r])])
              \o <<Lit("")>>])

\* OutputManager._powerpoint_to_markdown: the title, the texts, the pictures
\* and the notes of each slide, then a rule.
powerpoint_to_markdown(content) ==
    Concat([i \in DOMAIN GetList(content, "slides") |->
              <<Fmt(<<"## Slide ", "{}", ": ", "{}", "\n">>,
                    <<content.slides[i].slide_number, content.slides[i].title>>)>>
              \o [k \in DOMAIN content.slides[i].content |->
                    Fmt(<<"{}">>, <<content.slides[i].content[k]>>)]
              \o [k \in DOMAIN content.slides[i].images |->
                    Fmt(<<"\n*[Image: ", "{}", "]*\n">>,
                        <<IF "description" \in DOMAIN content.slides[i].images[k]
                          THEN content.slides[i].images[k].description ELSE "Image">>)]
              \o (IF content.slides[i].notes = None THEN <<>>
                  ELSE <<Fmt(<<"\n> **Speaker Notes**: ", "{}", "\n">>,
                             <<content.slides[i].notes>>)>>)
              \o <<Lit("---\n")>>])

\* OutputManager._table_to_markdown: a table without headers takes its first
\* row for them.
table_to_markdown(table) ==
    LET own == IF "headers" \in DOMAIN table THEN table.headers ELSE <<>>
        headers == IF own = <<>> /\ table.data # <<>> THEN Head(table.data) ELSE own
        data == IF own = <<>> /\ table.data # <<>> THEN Tail(table.data) ELSE table.data
    IN  (IF headers = <<>> THEN <<>>
         ELSE <<RowLine(headers), RuleLine(Len(headers))>>)
        \o [r \in DOMAIN data |-> RowLine(data[r])]

\* OutputManager._to_markdown: the lines it joins with "\n".
to_markdown(data) ==
    <<Fmt(<<"# ", "{}", "\n">>, <<data.filename>>)>>
    \o (IF Keys(data.metadata) = <<>> THEN <<>>
        ELSE <<Lit("## Metadata\n")>>
             \o [i \in DOMAIN Keys(data.metadata) |->
                   Fmt(<<"- **", "{}", "**: ", "{}">>,
                       <<Keys(data.metadata)[i], data.metadata[Keys(data.metadata)[i]]>>)]
             \o <<Lit("")>>)
    \o (CASE data.file_type = "pdf" -> pdf_to_markdown(data.content)
          [] data.file_type = "word" -> word_to_markdown(data.content)
          [] data.file_type = "excel" -> excel_to_markdown(data.content)
          [] data.file_type = "powerpoint" -> powerpoint_to_markdown(data.content)
          [] OTHER -> <<Lit("## Content\n"), Fmt(<<"{}">>, <<StrOf(data.content)>>)>>)
    \o (IF data.tables = <<>> THEN <<>>
        ELSE <<Lit("\n## Tables\n")>>
             \o Concat([i \in DOMAIN data.tables |->
                          <<Fmt(<<"### Table ", "{}", "\n">>, <<i>>)>>
                          \o table_to_markdown(data.tables[i])
                          \o <<Lit("")>>]))
    \o (IF data.images = <<>> THEN <<>>
        ELSE <<Lit("\n## Images\n")>>
             \o [i \in DOMAIN data.images |->
                   Fmt(<<"- **Image ", "{}", "**: ", "{}">>,
                       <<i, IF "description" \in DOMAIN data.images[i]
                            THEN data.images[i].description ELSE "Image">>)])

\* "\t".join(str(c) if c else '' for c in row)
TabLine(row) == Fmt(<<"{}\t{}">>, [c \in DOMAIN row |-> CellText(row[c])])

\* OutputManager._to_plain_text: the lines it joins with "\n".
to_plain_text(data) ==
    <<Fmt(<<"{}">>, <<data.filename>>), Fmt(<<"=" >>, <<Len(data.filename)>>), Lit("")>>
    \o (CASE data.file_type = "pdf" ->
               Concat([i \in DOMAIN GetList(data.content, "pages") |->
                         <<Fmt(<<"{}">>, <<data.content.pages[i].text>>), Lit("")>>])
          [] data.file_type = "word" ->
               [i \in DOMAIN GetList(data.content, "paragraphs") |->
                  Fmt(<<"{}">>, <<data.content.paragraphs[i].text>>)]
          [] data.file_type = "excel" ->
               Concat([i \in DOMAIN GetList(data.content, "sheets") |->
                         <<Fmt(<<"\n[", "{}", "]\n">>, <<data.content.sheets[i].name>>)>>
                         \o [r \in DOMAIN data.content.sheets[i].data |->
                               TabLine(data.content.sheets[i].data[r])]])
          [] data.file_type = "powerpoint" ->
               Concat([i \in DOMAIN GetList(data.content, "slides") |->
                         <<Fmt(<<"\n[", "{}", "]\n">>, <<data.content.slides[i].title>>)>>
                         \o [k \in DOMAIN data.content.slides[i].content |->
                               Fmt(<<"{}">>, <<data.content.slides[i].content[k]>>)]])
          [] OTHER -> <<>>)

output_name_KeepsExtension(data, filename, now) ==
    IF filename = <<>> THEN data.filename \o <<"_", strftime(now)>> ELSE filename

\* The file name save() uses, without extension: the one given, or for none
\* (None or '') the stem of the document's filename, '_' and the timestamp.
output_name(data, filename, now) ==
    IF filename = <<>> THEN PathStem(data.filename) \o <<"_", strftime(now)>> ELSE filename

\* What save() writes for a format: the dispatch to _save_json,
\* _save_markdown, _save_csv and _save_txt.
render(data, fmt) ==
    CASE fmt = "json" -> save_json(data)
      [] fmt = "markdown" -> to_markdown(data)
      [] fmt = "csv" -> save_csv(data)
      [] fmt = "txt" -> to_plain_text(data)

\* A regular file of the output directory.
OutputFile(content, now) == [kind |-> "file", content |-> content, mtime |-> now]

\* open(path, 'w') and the writes: the file is created or replaced.
Write(dir, path, entry) == [name \in DOMAIN dir \cup {path} |->
                              IF name = path THEN entry ELSE dir[name]]

save_StampsContent(dir, doc, output_format, filename, now) ==
    IF LowerToken(output_format) \notin Range(OUTPUT_FORMATS)
    THEN [raised |-> TRUE, error |-> "ValueError", path |-> <<>>, outputs |-> dir]
    ELSE [raised |-> FALSE, error |-> None,
          path |-> output_name(to_dict(doc), filename, now)
                   \o ext_map[LowerToken(output_format)],
          outputs |->
             Write(dir,
                   output_name(to_dict(doc), filename, now)
                   \o ext_map[LowerToken(output_format)],
                   OutputFile(IF LowerToken(output_format) = "json"
                              THEN render(to_dict(doc), "json")
                              ELSE render(to_dict(doc), LowerToken(output_format))
                                   \o <<Lit(strftime(now))>>, now))]

save_FallsBackToJson(dir, doc, output_format, filename, now) ==
    LET fmt == IF LowerToken(output_format) \notin Range(OUTPUT_FORMATS) THEN "json"
               ELSE LowerToken(output_format)
    IN  [raised |-> LowerToken(output_format) \notin Range(OUTPUT_FORMATS),
         error |-> IF LowerToken(output_format) \notin Range(OUTPUT_FORMATS)
                   THEN "ValueError" ELSE None,
         path |-> output_name(to_dict(doc), filename, now) \o ext_map[fmt],
         outputs |->
            Write(dir, output_name(to_dict(doc), filename, now) \o ext_map[fmt],
                  OutputFile(render(to_dict(doc), fmt), now))]

\* OutputManager.save on the directory dir at time now: the exception or the
\* path returned, and the directory afterwards.
save(dir, doc, output_format, filename, now) ==
    IF LowerToken(output_format) \notin Range(OUTPUT_FORMATS)
    THEN [raised |-> TRUE, error |-> "ValueError", path |-> <<>>, outputs |-> dir]
    ELSE [raised |-> FALSE, error |-> None,
          path |-> output_name(to_dict(doc), filename, now)
                   \o ext_map[LowerToken(output_format)],
          outputs |->
             Write(dir,
                   output_name(to_dict(doc), filename, now)
                   \o ext_map[LowerToken(output_format)],
                   OutputFile(render(to_dict(doc), LowerToken(output_format)), now))]

\* The entries of the directory for which path.is_file() holds.
RegularFiles(dir) == {name \in DOMAIN dir : dir[name].kind = "file"}

\* The dict list_outputs builds for a file: 'modified' is the local time of
\* st_mtime, 'format' the suffix without its dot.
FileInfo(dir, tz, name) ==
    [filename |-> name,
     modified |-> LocalTime(tz, dir[name].mtime),
     format |-> IF Suffix(name) = <<>> THEN <<>> ELSE Tail(Suffix(name))]

\* The orders in which iterdir() can yield the files.
Orderings(S) ==
    {order \in [1..Cardinality(S) -> S] :
        \A i \in DOMAIN order, j \in DOMAIN order : order[i] = order[j] => i = j}

\* OutputManager.list_outputs: every list it can return. sorted() orders by
\* the 'modified' string, latest first, and keeps iterdir()'s order among
\* equal keys.
list_outputs(dir, tz) ==
    {[i \in DOMAIN order |-> FileInfo(dir, tz, order[i])] :
        order \in {o \in Orderings(RegularFiles(dir)) :
                      \A i \in 1..(Len(o) - 1) :
                         FileInfo(dir, tz, o[i]).modified
                            >= FileInfo(dir, tz, o[i + 1]).modified}}

delete_output_AnyEntry(dir, filename) ==
    IF filename \in DOMAIN dir
    THEN [deleted |-> TRUE, outputs |-> [name \in DOMAIN dir \ {filename} |-> dir[name]]]
    ELSE [deleted |-> FALSE, outputs |-> dir]

\* OutputManager.delete_output
delete_output(dir, filename) ==
    IF filename \in RegularFiles(dir)
    THEN [deleted |-> TRUE, outputs |-> [name \in DOMAIN dir \ {filename} |-> dir[name]]]
    ELSE [deleted |-> FALSE, outputs |-> dir]

\* OutputManager.clear_outputs
clear_outputs(dir) ==
    [count |-> Cardinality(RegularFiles(dir)),
     outputs |-> [name \in DOMAIN dir \ RegularFiles(dir) |-> dir[name]]]

-----------------------------------------------------------------------------
(* The inputs: paths, validators, source documents, engines *)

MaxUnits == 3

MaxImages == 2

MaxEngineUnits == 1

MaxEngineImages == 1

Stem == "report"

ExtensionTokens ==
    {"pdf", "PDF", "docx", "Docx", "doc", "xlsx", "xls", "XLS", "pptx", "PPTX", "ppt", "txt"}

Names ==
    {<<Stem>>, <<Stem, ".">>, <<".", "pdf">>, <<".", "docx">>,
     <<Stem, ".", "pdf", ".", "txt">>, <<Stem, ".", "txt", ".", "pdf">>,
     <<Stem, ".", "docx", ".", "xlsx">>}
    \cup {<<Stem, ".", t>> : t \in ExtensionTokens}

EngineNames ==
    {<<Stem>>, <<".", "pdf">>, <<Stem, ".", "txt">>, <<Stem, ".", "pdf">>,
     <<Stem, ".", "Docx">>, <<Stem, ".", "xls">>, <<Stem, ".", "pptx">>}

Sizes == {0, 1, MAX_FILE_SIZE_BYTES, MAX_FILE_SIZE_BYTES + 1}

\* What magic.from_file reports: a MIME type, or "raises" for an exception.
Mimes == DOMAIN MIME_TYPE_MAP \cup {"text/plain", "application/zip", "raises"}

EngineSizes == {0, 1, MAX_FILE_SIZE_BYTES + 1}

EngineMimes == {"application/pdf", "text/plain", "raises"}

FilesOf(names, sizes, mimes) ==
    {[name |-> n, kind |-> "missing", size |-> 0, mime |-> "raises"] : n \in names}
    \cup {[name |-> n, kind |-> "dir", size |-> 1, mime |-> "raises"] : n \in names}
    \cup [name : names, kind : {"file"}, size : sizes, mime : mimes]

Files == FilesOf(Names, Sizes, Mimes)

ParserFiles == FilesOf(Names, {0, 1}, {"text/plain"})

EngineFiles == FilesOf(EngineNames, EngineSizes, EngineMimes)

Validators ==
    {FileValidatorInit(MAX_FILE_SIZE_BYTES, <<>>),
     FileValidatorInit(1, <<>>),
     FileValidatorInit(MAX_FILE_SIZE_BYTES, << <<".", "pdf">>, <<".", "txt">> >>)}

SeqsUpTo(S, n) == UNION {[1..k -> S] : k \in 0..n}

\* The statements of a class's parse() that can raise once the file is open.
Throwable(cls) ==
    CASE cls = "PDFParser" -> {"metadata", "images"}
      [] cls = "WordParser" -> {"metadata", "tables", "images"}
      [] cls = "ExcelParser" -> {"metadata", "tables"}
      [] cls = "PowerPointParser" -> {"metadata", "tables", "images"}

\* Only python-pptx pictures carry their bytes; PDF and Word images never do.
ImageKinds(cls) ==
    CASE cls = "PowerPointParser" -> {"blob", "noblob"}
      [] cls = "ExcelParser" -> {}
      [] OTHER -> {"noblob"}

Unreadable ==
    [faults |-> {"open"}, units |-> <<>>, styles |-> <<>>, grids |-> <<>>, images |-> <<>>]

\* A sheet with one text cell, and a sheet without cells.
UnitGrid(u) == [slide |-> 0, cells |-> IF u = "text" THEN << <<"text">> >> ELSE <<>>]

\* A source without tables whose paragraphs all have the style Normal; the
\* worksheets of a workbook hold one text cell or none.
Plain(cls, faults, units, images) ==
    [faults |-> faults, units |-> units,
     styles |-> [i \in DOMAIN units |-> <<"Normal">>],
     grids |-> IF cls = "ExcelParser" THEN [i \in DOMAIN units |-> UnitGrid(units[i])]
               ELSE <<>>,
     images |-> images]

\* What a parser of class cls can find in f: a directory or an empty file
\* cannot be opened; any other file holds some document, or is corrupt.
Sources(cls, f, maxUnits, maxImages) ==
    IF f.kind # "file" \/ f.size = 0 THEN {Unreadable}
    ELSE {Unreadable}
         \cup {s \in {Plain(cls, faults, units, images) :
                         faults \in SUBSET Throwable(cls),
                         units \in SeqsUpTo({"text", "blank", "raises"}, maxUnits),
                         images \in SeqsUpTo(ImageKinds(cls), maxImages)} :
                  s.images # <<>> => s.units # <<>>}

NoSource == Plain(None, {}, <<>>, <<>>)

NoEngine == [enable_vision |-> FALSE, vision_service |-> None]

NoVisionEnv == [sdk |-> FALSE, key |-> FALSE]

NoResult == [outcome |-> None]

\* No document in hand yet.
NoDocument == [filename |-> None]

\* OutputManager.__init__ on a fresh directory: mkdir leaves it empty.
NoOutputs == [name \in {} |-> None]

\* HAS_ANTHROPIC and a configured ANTHROPIC_API_KEY; without the SDK the key is
\* never read.
VisionEnvs ==
    {[sdk |-> FALSE, key |-> FALSE], [sdk |-> TRUE, key |-> FALSE],
     [sdk |-> TRUE, key |-> TRUE]}

MaxRows == 3

MaxCols == 2

MaxTables == 2

\* Every grid of r rows and c columns over the values S.
Rect(S, r, c) == [1..r -> [1..c -> S]]

RectsUpTo(S, rows, cols) == UNION {Rect(S, r, c) : r \in 1..rows, c \in 1..cols}

ExampleSheet == << <<"Name", "Age">>, <<"Ana", "30">>, <<None, None>> >>

DatedSheet == << <<"Name", "Born">>, <<"Ana", "datetime(2024, 1, 1, 0, 0)">> >>

\* What iter_rows() shows of a worksheet: nothing for a sheet without cells,
\* else max_row rows of max_column cells, None where a cell has no value.
SheetCells ==
    {<<>>, ExampleSheet, DatedSheet, << <<"timedelta(days=1)">> >>}
    \cup RectsUpTo({None, "Ana"}, MaxRows, MaxCols)

SmallSheetCells == {<<>>} \cup RectsUpTo({None, "Ana"}, 2, 1)

\* The text of the cells of a Word or PowerPoint table.
TableCells == RectsUpTo({"", "Ana", " Ana "}, 2, MaxCols)

SmallTableCells == RectsUpTo({"", "Ana"}, 1, 1)

\* One grid from the first set, or that and up to n - 1 from the second.
GridSeqs(first, rest, n) ==
    {<<>>} \cup {<<g>> : g \in first}
    \cup {<<g>> \o more : g \in rest, more \in SeqsUpTo(rest, n - 1) \ {<<>>}}

UnitOf(cells) == IF \E r \in DOMAIN cells : AnyValue(cells[r]) THEN "text" ELSE "blank"

\* The documents whose tables the parsers are tried on: workbooks of up to
\* MaxTables worksheets, Word documents and one-slide or two-slide
\* presentations of up to MaxTables tables.
TableSources(cls) ==
    CASE cls = "ExcelParser" ->
           {[faults |-> faults,
             units |-> [i \in DOMAIN grids |-> UnitOf(grids[i])],
             styles |-> [i \in DOMAIN grids |-> <<"Normal">>],
             grids |-> [i \in DOMAIN grids |-> [slide |-> 0, cells |-> grids[i]]],
             images |-> <<>>] :
              faults \in {{}, {"tables"}},
              grids \in GridSeqs(SheetCells, SmallSheetCells, MaxTables)}
      [] cls = "WordParser" ->
           {[faults |-> faults, units |-> <<"text">>, styles |-> << <<"Normal">> >>,
             grids |-> [i \in DOMAIN grids |-> [slide |-> 0, cells |-> grids[i]]],
             images |-> <<>>] :
              faults \in {{}, {"tables"}},
              grids \in GridSeqs(TableCells, SmallTableCells, MaxTables)}
      [] cls = "PowerPointParser" ->
           {[faults |-> faults, units |-> [i \in 1..slides |-> "text"],
             styles |-> [i \in 1..slides |-> <<"Normal">>],
             grids |-> [i \in DOMAIN grids |->
                          [slide |-> IF i = 1 THEN 1 ELSE slides, cells |-> grids[i]]],
             images |-> <<>>] :
              faults \in {{}, {"tables"}}, slides \in 1..2,
              grids \in GridSeqs(TableCells, SmallTableCells, MaxTables)}

\* A readable, non-empty file of the class's first extension.
FileFor(cls) ==
    [name |-> <<Stem>> \o ClassExtensions(cls)[1], kind |-> "file", size |-> 1,
     mime |-> "text/plain"]

MaxSaves == 2

MaxClock == 1

\* Paragraph styles: built-in headings, a heading style without a number, one
\* with a word for a number, and styles that are no headings.
Styles ==
    {<<"Normal">>, <<"Heading", " ", "1">>, <<"Heading", " ", "2">>,
     <<"Heading", " ", "Two">>, <<"Heading">>, <<"List", " ", "Heading">>}

BudgetTable == << <<"Item", " Ana ">>, <<"Rent", "">> >>

\* A Word document of the given paragraphs, styles and tables.
WordSource(units, styles, grids) ==
    [faults |-> {}, units |-> units, styles |-> styles,
     grids |-> [i \in DOMAIN grids |-> [slide |-> 0, cells |-> grids[i]]],
     images |-> <<>>]

\* A workbook of the given worksheets.
ExcelSource(grids) ==
    [faults |-> {}, units |-> [i \in DOMAIN grids |-> UnitOf(grids[i])],
     styles |-> [i \in DOMAIN grids |-> <<"Normal">>],
     grids |-> [i \in DOMAIN grids |-> [slide |-> 0, cells |-> grids[i]]],
     images |-> <<>>]

\* A presentation of one slide with the given pictures and tables.
SlideSource(images, grids) ==
    [faults |-> {}, units |-> <<"text">>, styles |-> << <<"Normal">> >>,
     grids |-> [i \in DOMAIN grids |-> [slide |-> 1, cells |-> grids[i]]],
     images |-> images]

MaxSlides == 2

MaxFrames == 1

\* Tables, or charts, spread over the slides of a presentation.
FramesOn(slides, frames) ==
    {[i \in DOMAIN on |-> [frame EXCEPT !.slide = on[i]]] :
        on \in SeqsUpTo(1..slides, MaxFrames), frame \in frames}

\* Presentations of up to MaxSlides slides with or without text, pictures on
\* the first slide, and up to MaxFrames tables and as many charts.
ShapeSources ==
    UNION {[faults : {{}}, units : {units},
            styles : {[i \in DOMAIN units |-> <<"Normal">>]},
            grids : FramesOn(Len(units), {[slide |-> 1, cells |-> BudgetTable]}),
            images : {<<>>, <<"blob">>, <<"blob", "noblob">>},
            charts : FramesOn(Len(units), {[slide |-> 1]})] :
             units \in SeqsUpTo({"text", "blank"}, MaxSlides) \ {<<>>}}

\* The two callers that save into one output directory at the same time.
Writers == {1, 2}

\* A document without content parsed from the file of that name.
EmptyDocument(cls, name) == parse(cls, name, Plain(cls, {}, <<>>, <<>>), 0).value

\* What they save: report.pdf and report.docx as json, report.docx as text
\* and notes.docx as json.
SaveRequests ==
    {[doc |-> EmptyDocument("PDFParser", <<Stem, ".", "pdf">>), output_format |-> "json"],
     [doc |-> EmptyDocument("WordParser", <<Stem, ".", "docx">>), output_format |-> "json"],
     [doc |-> EmptyDocument("WordParser", <<Stem, ".", "docx">>), output_format |-> "txt"],
     [doc |-> EmptyDocument("WordParser", <<"notes", ".", "docx">>),
      output_format |-> "json"]}

\* The output directory at the start: no files, one subdirectory.
Directories == {[name \in {<<"archive">>} |-> [kind |-> "dir"]]}

\* The names delete_output is called with: those in the directory and one
\* that is not.
DeleteNames(dir) == DOMAIN dir \cup {<<"missing", ".", "json">>}

Idle == [at |-> "idle"]

\* The documents that are parsed, enriched and saved.
OutputSources(cls) ==
    CASE cls = "WordParser" ->
           {WordSource(<<"Budget">>, <<style>>, <<>>) : style \in Styles}
           \cup {WordSource(<<>>, <<>>, <<>>),
                 WordSource(<<"blank", "Budget">>, << <<"Normal">>, <<"Heading", " ", "2">> >>,
                            <<>>),
                 WordSource(<<"Budget", "text">>, << <<"Heading", " ", "1">>, <<"Normal">> >>,
                            <<BudgetTable>>),
                 WordSource(<<"text">>, << <<"Normal">> >>, <<BudgetTable, BudgetTable>>),
                 Plain(cls, {"metadata"}, <<"Budget">>, <<>>)}
      [] cls = "ExcelParser" ->
           {ExcelSource(grids) :
              grids \in {<< <<>> >>, <<DatedSheet>>, <<ExampleSheet, DatedSheet>>}}
      [] cls = "PDFParser" ->
           {Plain(cls, {}, <<>>, <<>>), Plain(cls, {}, <<"text", "blank">>, <<>>)}
      [] cls = "PowerPointParser" ->
           {SlideSource(images, <<>>) : images \in {<<>>, <<"blob", "noblob">>}}
           \cup {SlideSource(<<"blob">>, <<BudgetTable>>)}

\* The output_format and filename arguments save() is called with.
Formats == {"json", "Markdown", "csv", "TXT", "xml"}

Filenames == {<<>>, <<"summary">>}

-----------------------------------------------------------------------------
(* The validator on its own *)

InitValidator ==
    /\ hasMagic \in BOOLEAN
    /\ validator \in Validators
    /\ file \in Files
    /\ variant = None
    /\ src = NoSource
    /\ engine = NoEngine
    /\ visionEnv = NoVisionEnv
    /\ zone = "fixed"
    /\ clock = 0
    /\ document = NoDocument
    /\ outputs = NoOutputs
    /\ saves = 0
    /\ pc = "ready"
    /\ op = None
    /\ ret = NoResult

\* validator.validate(file_path)
Validate ==
    /\ pc = "ready"
    /\ pc' = "done"
    /\ op' = "validate"
    /\ ret' = validate(file, validator, hasMagic)
    /\ UNCHANGED <<hasMagic, validator, file, variant, src, engine, visionEnv, zone, clock, document, outputs, saves>>

\* validator.get_file_type(file_path)
GetFileType ==
    /\ pc = "ready"
    /\ pc' = "done"
    /\ op' = "get_file_type"
    /\ ret' = [file_type |-> get_file_type(file.name)]
    /\ UNCHANGED <<hasMagic, validator, file, variant, src, engine, visionEnv, zone, clock, document, outputs, saves>>

NextValidator == Validate \/ GetFileType

SpecValidator == InitValidator /\ [][NextValidator]_vars

-----------------------------------------------------------------------------
(* The parser contract on its own *)

InitParser ==
    /\ hasMagic = FALSE
    /\ validator = EngineValidator
    /\ file \in ParserFiles
    /\ variant \in ParserClasses
    /\ src = NoSource
    /\ engine = NoEngine
    /\ visionEnv = NoVisionEnv
    /\ zone = "fixed"
    /\ clock = 0
    /\ document = NoDocument
    /\ outputs = NoOutputs
    /\ saves = 0
    /\ pc = "ready"
    /\ op = None
    /\ ret = NoResult

\* cls.can_parse(file_path)
CanParse ==
    /\ pc = "ready"
    /\ pc' = "done"
    /\ op' = "can_parse"
    /\ ret' = [result |-> can_parse(variant, file.name)]
    /\ UNCHANGED <<hasMagic, validator, file, variant, src, engine, visionEnv, zone, clock, document, outputs, saves>>

\* cls(file_path)
Construct ==
    /\ pc = "ready"
    /\ pc' = "done"
    /\ op' = "construct"
    /\ ret' = [outcome |-> ParserInit(variant, file)]
    /\ UNCHANGED <<hasMagic, validator, file, variant, src, engine, visionEnv, zone, clock, document, outputs, saves>>

\* cls(file_path).parse(), the constructor having succeeded
Parse ==
    /\ pc = "ready"
    /\ ParserInit(variant, file) = "ok"
    /\ \E s \in Sources(variant, file, MaxUnits, MaxImages) :
          /\ src' = s
          /\ ret' = parse(variant, file.name, s, clock)
    /\ pc' = "done"
    /\ op' = "parse"
    /\ UNCHANGED <<hasMagic, validator, file, variant, engine, visionEnv, zone, clock, document, outputs, saves>>

NextParser == CanParse \/ Construct \/ Parse

SpecParser == InitParser /\ [][NextParser]_vars

-----------------------------------------------------------------------------
(* The engine *)

InitEngine ==
    /\ hasMagic \in BOOLEAN
    /\ validator = EngineValidator
    /\ file \in EngineFiles
    /\ variant = None
    /\ src = NoSource
    /\ engine \in [enable_vision : BOOLEAN, vision_service : {None}]
    /\ visionEnv \in VisionEnvs
    /\ zone = "fixed"
    /\ clock = 0
    /\ document = NoDocument
    /\ outputs = NoOutputs
    /\ saves = 0
    /\ pc = "ready"
    /\ op = None
    /\ ret = NoResult

\* The outcomes of the adapter for the images of a document: only an image
\* with bytes is sent to it.
AdapterOutcomes(images) ==
    {o \in [DOMAIN images -> {"success", "failure", "raises"}] :
        \A i \in DOMAIN images : Get(images[i], "blob") = None => o[i] = "success"}

\* engine.parse(file_path, analyze_images)
EngineParse ==
    /\ pc = "ready"
    /\ IF EngineDispatch(file, hasMagic).outcome # "ok"
       THEN ret' = EngineDispatch(file, hasMagic) /\ engine' = engine
       ELSE \E s \in Sources(get_parser(file).parser, file, MaxEngineUnits, MaxEngineImages),
               analyze_images \in BOOLEAN :
               \E parsedDoc \in {parse(get_parser(file).parser, file.name, s, clock).value} :
                  \E o \in AdapterOutcomes(parsedDoc.images) :
                     /\ ret' = EngineParseBody(EngineDispatch(file, hasMagic), parsedDoc,
                                               engine, visionEnv, analyze_images, o)
                     /\ engine' = EngineAfterParse(parsedDoc, engine, visionEnv,
                                                   analyze_images)
    /\ pc' = "done"
    /\ op' = "parse"
    /\ UNCHANGED <<hasMagic, validator, file, variant, src, visionEnv, zone, clock, document, outputs, saves>>

EngineExtract(method) ==
    /\ pc = "ready"
    /\ LET d == EngineDispatch(file, hasMagic) IN
       IF d.outcome # "ok"
       THEN ret' = d
       ELSE \E s \in Sources(d.parser, file, MaxEngineUnits, MaxEngineImages) :
               ret' = EngineExtractBody(d, method, s)
    /\ pc' = "done"
    /\ op' = method
    /\ UNCHANGED <<hasMagic, validator, file, variant, src, engine, visionEnv, zone, clock, document, outputs, saves>>

\* engine.extract_text(file_path)
EngineExtractText == EngineExtract("extract_text")

\* engine.extract_tables(file_path)
EngineExtractTables == EngineExtract("extract_tables")

\* engine.extract_metadata(file_path)
EngineExtractMetadata == EngineExtract("extract_metadata")

\* engine._get_parser(file_path)
GetParser ==
    /\ pc = "ready"
    /\ pc' = "done"
    /\ op' = "get_parser"
    /\ ret' = get_parser(file)
    /\ UNCHANGED <<hasMagic, validator, file, variant, src, engine, visionEnv, zone, clock, document, outputs, saves>>

NextEngine ==
    \/ EngineParse
    \/ EngineExtractText
    \/ EngineExtractTables
    \/ EngineExtractMetadata
    \/ GetParser

SpecEngine == InitEngine /\ [][NextEngine]_vars

-----------------------------------------------------------------------------
(* Table extraction *)

InitTables ==
    /\ hasMagic = FALSE
    /\ validator = EngineValidator
    /\ variant \in ParserClasses \ {"PDFParser"}
    /\ file = FileFor(variant)
    /\ src \in TableSources(variant)
    /\ engine = NoEngine
    /\ visionEnv = NoVisionEnv
    /\ zone = "fixed"
    /\ clock = 0
    /\ document = NoDocument
    /\ outputs = NoOutputs
    /\ saves = 0
    /\ pc = "ready"
    /\ op = None
    /\ ret = NoResult

\* cls(file_path).extract_tables()
ExtractTables ==
    /\ pc = "ready"
    /\ pc' = "done"
    /\ op' = "extract_tables"
    /\ ret' = extract_tables(variant, src)
    /\ UNCHANGED <<hasMagic, validator, file, variant, src, engine, visionEnv, zone, clock, document, outputs, saves>>

\* cls(file_path).parse()
ParseTables ==
    /\ pc = "ready"
    /\ pc' = "done"
    /\ op' = "parse"
    /\ ret' = parse(variant, file.name, src, clock)
    /\ UNCHANGED <<hasMagic, validator, file, variant, src, engine, visionEnv, zone, clock, document, outputs, saves>>

NextTables == ExtractTables \/ ParseTables

SpecTables == InitTables /\ [][NextTables]_vars

-----------------------------------------------------------------------------
(* Slide extraction *)

InitSlides ==
    /\ hasMagic = FALSE
    /\ validator = EngineValidator
    /\ variant = "PowerPointParser"
    /\ file = FileFor(variant)
    /\ src \in ShapeSources
    /\ engine = NoEngine
    /\ visionEnv = NoVisionEnv
    /\ zone = "fixed"
    /\ clock = 0
    /\ document = NoDocument
    /\ outputs = NoOutputs
    /\ saves = 0
    /\ pc = "ready"
    /\ op = None
    /\ ret = NoResult

\* PowerPointParser(file_path)._extract_slides()
ExtractSlides ==
    /\ pc = "ready"
    /\ pc' = "done"
    /\ op' = "extract_slides"
    /\ ret' = Returned(extract_slides(src))
    /\ UNCHANGED <<hasMagic, validator, file, variant, src, engine, visionEnv, zone, clock, document, outputs, saves>>

\* PowerPointParser(file_path).parse()
ParseSlides ==
    /\ pc = "ready"
    /\ pc' = "done"
    /\ op' = "parse"
    /\ ret' = parse(variant, file.name, src, clock)
    /\ UNCHANGED <<hasMagic, validator, file, variant, src, engine, visionEnv, zone, clock, document, outputs, saves>>

NextSlides == ExtractSlides \/ ParseSlides

SpecSlides == InitSlides /\ [][NextSlides]_vars

-----------------------------------------------------------------------------
(* The output directory: concurrent saves, listing, deleting and clearing.    *)
(* pc holds, for each writer, where it is in save() and its local variables.  *)

InitDirectory ==
    /\ hasMagic = FALSE
    /\ validator = EngineValidator
    /\ variant = None
    /\ file = FileFor("WordParser")
    /\ src = NoSource
    /\ engine = NoEngine
    /\ visionEnv = NoVisionEnv
    /\ zone \in {"fixed", "fallback"}
    /\ clock = 0
    /\ document = NoDocument
    /\ outputs \in Directories
    /\ saves = 0
    /\ pc = [w \in Writers |-> Idle]
    /\ op = None
    /\ ret = NoResult

\* save(document, output_format) up to output_path = self.output_dir / filename:
\* the format is checked, the document converted, the timestamp taken.
SaveName(w) ==
    /\ pc[w] = Idle
    /\ saves < MaxSaves
    /\ \E call \in SaveRequests :
          pc' = [pc EXCEPT ![w] =
                    [at |-> "named",
                     base |-> PathStem(call.doc.filename),
                     output_format |-> call.output_format,
                     now |-> LocalTime(zone, clock),
                     path |-> output_name(to_dict(call.doc), <<>>, LocalTime(zone, clock))
                              \o ext_map[call.output_format],
                     content |-> render(to_dict(call.doc), call.output_format)]]
    /\ saves' = saves + 1
    /\ UNCHANGED <<hasMagic, validator, file, variant, src, engine, visionEnv, zone, clock, document, outputs, op, ret>>

\* The rest of save(): the file is opened for writing, written and closed.
SaveWrite(w) ==
    /\ pc[w].at = "named"
    /\ outputs' = Write(outputs, pc[w].path, OutputFile(pc[w].content, clock))
    /\ pc' = [pc EXCEPT ![w] = Idle]
    /\ op' = "save"
    /\ ret' = [path |-> pc[w].path]
    /\ UNCHANGED <<hasMagic, validator, file, variant, src, engine, visionEnv, zone, clock, document, saves>>

\* output_manager.list_outputs()
ListOutputs ==
    /\ \E files \in list_outputs(outputs, zone) : ret' = [files |-> files]
    /\ op' = "list_outputs"
    /\ UNCHANGED <<hasMagic, validator, file, variant, src, engine, visionEnv, zone, clock, document, outputs, saves, pc>>

\* output_manager.delete_output(filename)
DeleteOutput ==
    /\ \E filename \in DeleteNames(outputs) :
          /\ outputs' = delete_output(outputs, filename).outputs
          /\ ret' = [filename |-> filename,
                     deleted |-> delete_output(outputs, filename).deleted]
    /\ op' = "delete_output"
    /\ UNCHANGED <<hasMagic, validator, file, variant, src, engine, visionEnv, zone, clock, document, saves, pc>>

\* output_manager.clear_outputs()
ClearOutputs ==
    /\ outputs' = clear_outputs(outputs).outputs
    /\ ret' = [count |-> clear_outputs(outputs).count]
    /\ op' = "clear_outputs"
    /\ UNCHANGED <<hasMagic, validator, file, variant, src, engine, visionEnv, zone, clock, document, saves, pc>>

\* A second passes.
TickDirectory ==
    /\ clock < MaxClock
    /\ clock' = clock + 1
    /\ UNCHANGED <<hasMagic, validator, file, variant, src, engine, visionEnv, zone, document, outputs, saves, pc, op, ret>>

NextDirectory ==
    \/ \E w \in Writers : SaveName(w)
    \/ \E w \in Writers : SaveWrite(w)
    \/ ListOutputs
    \/ DeleteOutput
    \/ ClearOutputs
    \/ TickDirectory

SpecDirectory == InitDirectory /\ [][NextDirectory]_vars

-----------------------------------------------------------------------------
(* Parsing, enriching and saving a document *)

InitOutput ==
    /\ hasMagic = FALSE
    /\ validator = EngineValidator
    /\ variant \in ParserClasses
    /\ file = FileFor(variant)
    /\ src \in OutputSources(variant)
    /\ engine = [enable_vision |-> TRUE, vision_service |-> None]
    /\ visionEnv = [sdk |-> TRUE, key |-> TRUE]
    /\ zone = "fixed"
    /\ clock = 0
    /\ document = NoDocument
    /\ outputs = NoOutputs
    /\ saves = 0
    /\ pc = "ready"
    /\ op = None
    /\ ret = NoResult

\* document = parser.parse()
ParseDocument ==
    /\ pc = "ready"
    /\ pc' = "parsed"
    /\ op' = "parse"
    /\ document' = parse(variant, file.name, src, clock).value
    /\ ret' = [raised |-> parse(variant, file.name, src, clock).raised]
    /\ UNCHANGED <<hasMagic, validator, file, variant, src, engine, visionEnv, zone, clock, outputs, saves>>

\* document = engine._analyze_document_images(document), as ParsingEngine.parse
\* calls it
Enrich ==
    /\ pc = "parsed"
    /\ Enriches(document, engine, TRUE)
    /\ \E o \in AdapterOutcomes(document.images) :
          document' = analyze_document_images(document, engine, visionEnv, o)
    /\ engine' = vision_service(engine, visionEnv)
    /\ op' = "enrich"
    /\ ret' = [raised |-> FALSE]
    /\ UNCHANGED <<hasMagic, validator, file, variant, src, visionEnv, zone, clock, outputs, saves, pc>>

\* output_manager.save(document, output_format, filename)
Save ==
    /\ pc \in {"parsed", "saved"}
    /\ saves < MaxSaves
    /\ \E output_format \in Formats, filename \in Filenames :
          /\ outputs' = save(outputs, document, output_format, filename, clock).outputs
          /\ ret' = [raised |-> save(outputs, document, output_format, filename, clock).raised,
                     error |-> save(outputs, document, output_format, filename, clock).error,
                     path |-> save(outputs, document, output_format, filename, clock).path,
                     output_format |-> output_format, filename |-> filename]
    /\ saves' = saves + 1
    /\ pc' = "saved"
    /\ op' = "save"
    /\ UNCHANGED <<hasMagic, validator, file, variant, src, engine, visionEnv, zone, clock, document>>

\* A second passes.
Tick ==
    /\ pc \in {"parsed", "saved"}
    /\ clock < MaxClock
    /\ clock' = clock + 1
    /\ UNCHANGED <<hasMagic, validator, file, variant, src, engine, visionEnv, zone, document, outputs, saves, pc, op, ret>>

NextOutput == ParseDocument \/ Enrich \/ Save \/ Tick

SpecOutput == InitOutput /\ [][NextOutput]_vars

-----------------------------------------------------------------------------
(* The properties.  The tables below restate the format families from the    *)
(* specification's side: the extensions of each family and its parser.       *)

FamilyExtensions(family) ==
    CASE family = "pdf" -> {<<".", "pdf">>}
      [] family = "word" -> {<<".", "docx">>, <<".", "doc">>}
      [] family = "excel" -> {<<".", "xlsx">>, <<".", "xls">>}
      [] family = "powerpoint" -> {<<".", "pptx">>, <<".", "ppt">>}

FamilyOf(ext) ==
    IF \E family \in Range(Families) : ext \in FamilyExtensions(family)
    THEN CHOOSE family \in Range(Families) : ext \in FamilyExtensions(family)
    ELSE None

FamilyParser(family) ==
    CASE family = "pdf" -> "PDFParser"
      [] family = "word" -> "WordParser"
      [] family = "excel" -> "ExcelParser"
      [] family = "powerpoint" -> "PowerPointParser"

ParserFamily(cls) == CHOOSE family \in Range(Families) : FamilyParser(family) = cls

Extension == Lower(Suffix(file.name))

Validated == pc = "done" /\ op = "validate"

\* The five checks of the validator, in the order the specification gives,
\* each stated on the file alone.
FailsCheck(i) ==
    CASE i = 1 -> file.kind # "file"
      [] i = 2 -> file.size = 0
      [] i = 3 -> file.size > validator.max_size_bytes
      [] i = 4 -> Extension \notin Range(validator.allowed_extensions)
      [] i = 5 -> /\ hasMagic
                  /\ file.mime \in DOMAIN MIME_TYPE_MAP
                  /\ FamilyOf(Extension) # FamilyOf(MIME_TYPE_MAP[file.mime])

CheckReasons(i) ==
    CASE i = 1 -> {"File not found", "Not a file"}
      [] i = 2 -> {"File is empty"}
      [] i = 3 -> {"File too large"}
      [] i = 4 -> {"File has no extension", "Unsupported file type"}
      [] i = 5 -> {"File content doesn't match extension"}

FailedChecks == {i \in 1..5 : FailsCheck(i)}

FirstFailedCheck == CHOOSE i \in FailedChecks : \A j \in FailedChecks : i <= j

(* C1: validate runs existence, non-empty, maximum size, extension allowlist  *)
(* and content type in this order and returns the reason of the first check   *)
(* that fails; a file that fails none is accepted, and a file that fails      *)
(* several gets the reason of the earliest of them and of no later one.       *)
C1_FirstFailureWins ==
    Validated =>
        IF FailedChecks = {} THEN ret = Accept
        ELSE ~ret.ok /\ ret.reason \in CheckReasons(FirstFailedCheck)

\* An oversized file with an extension outside the allowlist is rejected for
\* its size.
C1_Witness ==
    /\ Validated
    /\ file.kind = "file"
    /\ {3, 4} \subseteq FailedChecks
    /\ ret.reason = "File too large"

(* C2: an existing regular file of size zero is rejected with the reason      *)
(* 'File is empty', whatever its extension.                                   *)
C2_EmptyFileRejectedForSize ==
    (Validated /\ file.kind = "file" /\ file.size = 0) => ret = Reject("File is empty")

\* An empty file without an extension was validated.
C2_Witness ==
    /\ Validated
    /\ file.kind = "file"
    /\ file.size = 0
    /\ Suffix(file.name) = <<>>
    /\ ret.reason = "File is empty"

\* The file passes the checks that come before the content-type check.
ReachesContentType ==
    /\ file.kind = "file"
    /\ 0 < file.size
    /\ file.size <= validator.max_size_bytes
    /\ Extension \in Range(validator.allowed_extensions)

(* C3: the content-type check compares format families: with the magic-byte   *)
(* library, a file whose extension is of family A and whose sniffed MIME type *)
(* is of family B passes exactly when A = B; without the library every file   *)
(* passes.                                                                    *)
C3_ContentTypeByFamily ==
    (Validated /\ ReachesContentType) =>
        /\ ~hasMagic => ret.ok
        /\ (hasMagic /\ file.mime \in DOMAIN MIME_TYPE_MAP /\ FamilyOf(Extension) # None)
              => (ret.ok <=> FamilyOf(Extension) = FamilyOf(MIME_TYPE_MAP[file.mime]))

\* A .doc file whose content is sniffed as the .docx MIME type was accepted.
C3_Witness ==
    /\ Validated
    /\ hasMagic
    /\ Suffix(file.name) = <<".", "doc">>
    /\ file.mime = "application/vnd.openxmlformats-officedocument.wordprocessingml.document"
    /\ ret.ok

Parsed == pc = "done" /\ op = "parse"

\* Some statement of the try block of parse() raises on this source.
SourceRaises == src.faults # {} \/ \E i \in DOMAIN src.units : src.units[i] = "raises"

(* C4: parse() of a constructed parser never raises: it returns a document    *)
(* with the file's name and the variant's file_type, and an exception thrown  *)
(* during extraction is in the document's errors instead.                     *)
C4_ParseNeverRaises ==
    Parsed =>
        /\ ~ret.raised
        /\ ret.value.filename = file.name
        /\ ret.value.file_type = ParserFamily(variant)
        /\ IF SourceRaises
           THEN /\ Len(ret.value.errors) = 1
                /\ ret.value.errors[1] \in src.faults \cup {"content"}
           ELSE ret.value.errors = <<>>

\* A spreadsheet whose table extraction raised was parsed.
C4_Witness ==
    /\ Parsed
    /\ variant = "ExcelParser"
    /\ src.faults = {"tables"}
    /\ ~ret.raised
    /\ ret.value.errors = <<"tables">>

Field(doc, step) ==
    CASE step = "metadata" -> doc.metadata
      [] step = "content" -> doc.content
      [] step = "tables" -> doc.tables
      [] step = "images" -> doc.images

StepRaises(i) == RunStep(variant, src, Steps(variant)[i]).raised

(* C5: when one extraction step of parse() throws, the steps after it are     *)
(* still executed and their results are in the returned document, alongside   *)
(* the recorded error.                                                        *)
C5_LaterStepsStillRun ==
    Parsed =>
        \A i \in DOMAIN Steps(variant) :
            (StepRaises(i) /\ \A k \in 1..(i - 1) : ~StepRaises(k)) =>
                /\ ret.value.errors # <<>>
                /\ \A j \in DOMAIN Steps(variant) :
                      (j > i /\ ~StepRaises(j)) =>
                          Field(ret.value, Steps(variant)[j])
                             = RunStep(variant, src, Steps(variant)[j]).value

(* C6: for a PDF of n pages in which text extraction throws for page k,       *)
(* parse() returns a document whose content.pages has n entries in page       *)
(* order, page k's text empty and the other pages' text intact, and a message *)
(* in errors; no exception is raised.                                         *)
C6_FailedPageDegradesToEmpty ==
    (Parsed /\ variant = "PDFParser" /\ src.faults = {}
        /\ \E k \in DOMAIN src.units : src.units[k] = "raises") =>
        /\ ~ret.raised
        /\ ret.value.errors # <<>>
        /\ "pages" \in DOMAIN ret.value.content
        /\ Len(ret.value.content.pages) = Len(src.units)
        /\ \A i \in DOMAIN src.units :
              /\ ret.value.content.pages[i].page_number = i
              /\ ret.value.content.pages[i].text
                    = (IF src.units[i] = "text" THEN "text" ELSE "")

EngineOps == {"parse", "extract_text", "extract_tables", "extract_metadata"}

(* C7: in ParsingEngine.parse, extract_text, extract_tables and               *)
(* extract_metadata validation runs first, and when the validator rejects the *)
(* file a ValidationError with the validator's reason is raised, no parser is *)
(* instantiated and no document is produced.                                  *)
C7_ValidationBeforeDispatch ==
    (pc = "done" /\ op \in EngineOps) =>
        /\ Head(ret.events) = "validate"
        /\ FailedChecks # {} =>
              /\ ret.outcome = "ValidationError"
              /\ ret.reason \in CheckReasons(FirstFailedCheck)
              /\ ret.parser = None
              /\ ret.events = <<"validate">>
              /\ ret.value = None
              /\ "parsed" \notin DOMAIN ret

\* engine.parse on an oversized .pdf file raised ValidationError.
C7_Witness ==
    /\ pc = "done"
    /\ op = "parse"
    /\ file.kind = "file"
    /\ file.size > MAX_FILE_SIZE_BYTES
    /\ Extension = <<".", "pdf">>
    /\ ret.outcome = "ValidationError"
    /\ ret.reason = "File too large"

(* C8: the dispatcher instantiates exactly the parser class registered for    *)
(* the family of the path's extension, and for an extension of no family it   *)
(* fails with 'No parser available' and instantiates nothing.                 *)
C8_DispatchByFamily ==
    /\ (pc = "done" /\ op = "get_parser") =>
          IF FamilyOf(Extension) = None
          THEN /\ ret.outcome = "ValueError"
               /\ ret.reason = "No parser available for file type"
               /\ ret.parser = None
               /\ ret.events = <<"get_file_type">>
          ELSE /\ ret.events = <<"get_file_type", FamilyParser(FamilyOf(Extension))>>
               /\ file.kind # "missing" =>
                     ret.outcome = "ok" /\ ret.parser = FamilyParser(FamilyOf(Extension))
    /\ (pc = "done" /\ op \in EngineOps /\ ret.outcome # "ValidationError") =>
          /\ ret.parser = FamilyParser(FamilyOf(Extension))
          /\ SubSeq(ret.events, 1, 3)
                = <<"validate", "get_file_type", FamilyParser(FamilyOf(Extension))>>

\* _get_parser on report.txt failed with 'No parser available'.
C8_Witness ==
    /\ pc = "done"
    /\ op = "get_parser"
    /\ file.name = <<Stem, ".", "txt">>
    /\ ret.outcome = "ValueError"
    /\ ret.parser = None

\* The suffixes, as written, whose lower-cased form a variant declares.
Accepted(cls) ==
    CASE cls = "PDFParser" -> {<<".", "pdf">>, <<".", "PDF">>}
      [] cls = "WordParser" -> {<<".", "docx">>, <<".", "Docx">>, <<".", "doc">>}
      [] cls = "ExcelParser" -> {<<".", "xlsx">>, <<".", "xls">>, <<".", "XLS">>}
      [] cls = "PowerPointParser" -> {<<".", "pptx">>, <<".", "PPTX">>, <<".", "ppt">>}

(* C9: can_parse(path) of a variant is true exactly when the path's           *)
(* lower-cased extension is in the variant's declared set, and false for      *)
(* every extension another variant declares.                                  *)
C9_CanParseByExtension ==
    (pc = "done" /\ op = "can_parse") =>
        /\ ret.result <=> Suffix(file.name) \in Accepted(variant)
        /\ \A other \in ParserClasses \ {variant} :
              Extension \in FamilyExtensions(ParserFamily(other)) => ~ret.result

\* PDFParser.can_parse("report.PDF") was true.
C9_Witness ==
    /\ pc = "done"
    /\ op = "can_parse"
    /\ variant = "PDFParser"
    /\ file.name = <<Stem, ".", "PDF">>
    /\ ret.result

(* C10: constructing a variant on a missing path fails with the not-found     *)
(* error, whatever the extension; on an existing path with an extension       *)
(* outside the variant's set it fails with the unsupported-extension error;   *)
(* and it succeeds only when the path exists and the extension is declared.   *)
C10_ConstructionChecks ==
    (pc = "done" /\ op = "construct") =>
        /\ file.kind = "missing" => ret.outcome = "FileNotFoundError"
        /\ (file.kind # "missing" /\ Suffix(file.name) \notin Accepted(variant))
              => ret.outcome = "ValueError"
        /\ ret.outcome = "ok"
              <=> (file.kind # "missing" /\ Suffix(file.name) \in Accepted(variant))

\* A parser was constructed on a missing path with a foreign extension.
C10_Witness ==
    /\ pc = "done"
    /\ op = "construct"
    /\ file.kind = "missing"
    /\ Suffix(file.name) # <<>>
    /\ Suffix(file.name) \notin Accepted(variant)
    /\ ret.outcome = "FileNotFoundError"

EngineParsed == pc = "done" /\ op = "parse" /\ ret.outcome = "returned"

\* The enrichment call of ParsingEngine.parse was made.
EnrichmentRan == EngineParsed /\ "analyze" \in Range(ret.events)

FailurePlaceholders == {"Image analysis failed", "Error analyzing image"}

(* C11: when enrichment is requested and the vision adapter fails or is       *)
(* unavailable, ParsingEngine.parse still returns the parsed document, and    *)
(* every image with raw bytes that the adapter did not describe has a failure *)
(* placeholder for its description and its ai_error recorded.                 *)
C11_FailedEnrichmentMarksImages ==
    (pc = "done" /\ op = "parse" /\ FailedChecks = {} /\ FamilyOf(Extension) # None) =>
        /\ ret.outcome = "returned"
        /\ EnrichmentRan =>
              \A i \in DOMAIN ret.value.images :
                 (/\ Get(ret.value.images[i], "blob") # None
                  /\ Get(ret.value.images[i], "ai_analyzed") = None) =>
                     /\ Get(ret.value.images[i], "description") \in FailurePlaceholders
                     /\ Get(ret.value.images[i], "ai_error") # None

\* The tables an operation of the parser contract handed back.
TablesOut ==
    IF op = "extract_tables" /\ ~ret.raised THEN ret.value
    ELSE IF op = "parse" THEN ret.value.tables
    ELSE <<>>

(* C13: for every table t a parser produces, t.data has t.rows rows and every *)
(* row of t.data has t.columns entries.                                       *)
C13_TableShape ==
    pc = "done" =>
        \A i \in DOMAIN TablesOut :
            /\ Len(TablesOut[i].data) = TablesOut[i].rows
            /\ \A r \in DOMAIN TablesOut[i].data :
                  Len(TablesOut[i].data[r]) = TablesOut[i].columns

\* The rows of a worksheet that hold a value, by their position in the sheet.
ValueRows(cells) == {r \in DOMAIN cells : \E c \in DOMAIN cells[r] : cells[r][c] # None}

\* The k-th smallest member of a set of numbers.
Kth(S, k) == CHOOSE x \in S : Cardinality({y \in S : y < x}) = k - 1

(* C14: Excel table extraction yields one table per worksheet in workbook     *)
(* order; its headers are the first row of the sheet that has a value and its *)
(* data are the other rows that have a value, in sheet order; a row without   *)
(* values is in neither.                                                      *)
C14_ExcelTables ==
    (pc = "done" /\ variant = "ExcelParser" /\ src.faults = {}) =>
        /\ Len(TablesOut) = Len(src.grids)
        /\ \A i \in DOMAIN TablesOut :
              LET cells == src.grids[i].cells
                  table == TablesOut[i]
              IN  /\ table.name = i
                  /\ IF ValueRows(cells) = {}
                     THEN table.headers = <<>> /\ table.data = <<>>
                     ELSE /\ table.headers = cells[Kth(ValueRows(cells), 1)]
                          /\ Len(table.data) = Cardinality(ValueRows(cells)) - 1
                          /\ \A k \in DOMAIN table.data :
                                table.data[k] = cells[Kth(ValueRows(cells), k + 1)]

\* The sheet [Name, Age], [Ana, 30], [None, None] gave headers [Name, Age] and
\* data [[Ana, 30]].
C14_Witness ==
    /\ pc = "done"
    /\ variant = "ExcelParser"
    /\ Len(src.grids) = 1
    /\ src.grids[1].cells = ExampleSheet
    /\ Len(TablesOut) = 1
    /\ TablesOut[1].headers = <<"Name", "Age">>
    /\ TablesOut[1].data = << <<"Ana", "30">> >>

\* The caller holds a document.
HasDocument == pc \in {"parsed", "saved"}

Described(doc) == {i \in DOMAIN doc.images : "description" \in DOMAIN doc.images[i]}

(* C12: no image of the document a parser's parse() returns has a             *)
(* description; a description appears only in an enrichment step; and an      *)
(* image that has a description keeps one through every later operation       *)
(* (further enrichment, saving in any format).                                *)
C12_DescriptionOnlyByEnrichment ==
    /\ []((pc = "parsed" /\ op = "parse") => Described(document) = {})
    /\ [][HasDocument =>
             /\ Described(document) \subseteq Described(document')
             /\ Described(document') # Described(document) => op' = "enrich"]_vars

\* An enriched document whose image has a description was saved.
C12_Witness ==
    /\ pc = "saved"
    /\ op = "save"
    /\ ~ret.raised
    /\ Described(document) # {}

\* The style names the specification calls headings, and their levels.
IsHeadingStyle(style) == style # <<>> /\ Head(style) = "Heading"

StyleLevel(style) ==
    CASE style = <<"Heading", " ", "1">> -> 1
      [] style = <<"Heading", " ", "2">> -> 2
      [] style = <<"Heading", " ", "3">> -> 3
      [] style = <<"Heading", " ", "9">> -> 9
      [] OTHER -> 1

\* The paragraphs of the source that have text.
TextParagraphs == {i \in DOMAIN src.units : src.units[i] # "blank"}

\* The last operation saved the document in the format fmt.
Saved(fmt) ==
    /\ pc = "saved"
    /\ op = "save"
    /\ ~ret.raised
    /\ Suffix(ret.path) = fmt

HasLine(content, markup, args) ==
    \E k \in DOMAIN content : content[k].markup = markup /\ content[k].args = args

(* C15: for every non-blank Word paragraph with a style 'Heading N' the       *)
(* parser emits an entry with is_heading, heading_level N (1 when N is no     *)
(* number) and the text, and the markup renderer writes it as a header of     *)
(* N + 1 hashes; a paragraph of another style has no heading flag and is      *)
(* written as plain text.                                                     *)
C15_HeadingsBecomeHeaders ==
    (HasDocument /\ variant = "WordParser" /\ src.faults = {}) =>
        /\ Len(document.content.paragraphs) = Cardinality(TextParagraphs)
        /\ \A i \in TextParagraphs :
              \E k \in DOMAIN document.content.paragraphs :
                 LET entry == document.content.paragraphs[k] IN
                 /\ entry.index = i - 1
                 /\ entry.text = src.units[i]
                 /\ IF IsHeadingStyle(src.styles[i])
                    THEN /\ "is_heading" \in DOMAIN entry
                         /\ entry.is_heading
                         /\ entry.heading_level = StyleLevel(src.styles[i])
                         /\ Saved(<<".", "md">>) =>
                               HasLine(outputs[ret.path].content,
                                       [n \in 1..(StyleLevel(src.styles[i]) + 1) |-> "#"]
                                          \o <<" ", "{}", "\n">>,
                                       <<src.units[i]>>)
                    ELSE /\ "is_heading" \notin DOMAIN entry
                         /\ "heading_level" \notin DOMAIN entry
                         /\ Saved(<<".", "md">>) =>
                               HasLine(outputs[ret.path].content, <<"{}">>, <<src.units[i]>>)

\* A paragraph 'Budget' of style Heading 2 was written as '### Budget'.
C15_Witness ==
    /\ Saved(<<".", "md">>)
    /\ variant = "WordParser"
    /\ src.units = <<"Budget">>
    /\ src.styles = << <<"Heading", " ", "2">> >>
    /\ document.content.paragraphs[1].heading_level = 2
    /\ HasLine(outputs[ret.path].content, <<"#", "#", "#", " ", "{}", "\n">>, <<"Budget">>)

\* The rows of one table in the tabular export: its header row if it has
\* headers, then its data rows.
TableBlock(table) ==
    (IF "headers" \in DOMAIN table /\ table.headers # <<>>
     THEN <<[c \in DOMAIN table.headers |->
               IF table.headers[c] = None THEN "" ELSE Str(table.headers[c])]>>
     ELSE <<>>)
    \o [r \in DOMAIN table.data |->
          [c \in DOMAIN table.data[r] |->
             IF table.data[r][c] = None THEN "" ELSE Str(table.data[r][c])]]

\* The tables in order with one blank row between each two of them.
RECURSIVE TableBlocks(_)
TableBlocks(tables) ==
    IF tables = <<>> THEN <<>>
    ELSE IF Tail(tables) = <<>> THEN TableBlock(Head(tables))
    ELSE TableBlock(Head(tables)) \o << <<>> >> \o TableBlocks(Tail(tables))

\* The row of the key -> value dump for a key path.
HasEntry(rows, key, value) ==
    \E k \in DOMAIN rows : Len(rows[k]) = 2 /\ rows[k][1] = key /\ rows[k][2] = value

(* C16: the csv export of a document with tables is every table in order,     *)
(* each as its header row and its data rows, with one blank row between two   *)
(* tables; that of a document without tables is the row Key,Value and one row *)
(* per flattened entry of the document, nested keys joined by '.', each       *)
(* sequence as one stringified value; it is never empty.                      *)
C16_CsvModes ==
    Saved(<<".", "csv">>) =>
        LET rows == outputs[ret.path].content IN
        /\ rows # <<>>
        /\ IF document.tables # <<>>
           THEN rows = TableBlocks(document.tables)
           ELSE /\ Head(rows) = <<"Key", "Value">>
                /\ Len(rows) = 7 + Cardinality(DOMAIN document.metadata)
                                 + Cardinality(DOMAIN document.content)
                /\ \A k \in {"filename", "file_type", "parsed_at"} :
                      HasEntry(Tail(rows), <<k>>, document[k])
                /\ \A k \in {"tables", "images", "errors"} :
                      HasEntry(Tail(rows), <<k>>, [str |-> document[k]])
                /\ \A k \in DOMAIN document.metadata :
                      HasEntry(Tail(rows), <<"metadata", ".", k>>, document.metadata[k])
                /\ \A k \in DOMAIN document.content :
                      HasEntry(Tail(rows), <<"content", ".", k>>,
                               IF k \in {"paragraphs", "sections", "pages", "sheets",
                                         "slides", "sheet_names"}
                               THEN [str |-> document.content[k]]
                               ELSE document.content[k])

RenderedSuffixes == {<<".", "md">>, <<".", "txt">>, <<".", "csv">>}

(* C17: rendering is deterministic: whenever the same document has been       *)
(* rendered to markup, plain text or tabular more than once, at whatever time *)
(* and with whatever else in the output directory, the contents are equal.    *)
C17_RenderingDeterministic ==
    \A p \in DOMAIN outputs, q \in DOMAIN outputs :
        (Suffix(p) \in RenderedSuffixes /\ Suffix(p) = Suffix(q)) =>
            outputs[p].content = outputs[q].content

\* The same document was rendered to the same format at two different times.
C17_Witness ==
    \E p \in DOMAIN outputs, q \in DOMAIN outputs :
        /\ Suffix(p) \in RenderedSuffixes
        /\ Suffix(p) = Suffix(q)
        /\ outputs[p].mtime # outputs[q].mtime

DocumentFields ==
    {"filename", "file_type", "parsed_at", "metadata", "content", "tables", "images",
     "errors"}

(* C18: rendering a document to json and parsing that output back reproduces  *)
(* every field of the document with an equal value, table cells that held     *)
(* temporal or other non-primitive values included.                           *)
C18_JsonRoundTrip ==
    Saved(<<".", "json">>) =>
        \A k \in DocumentFields : outputs[ret.path].content[k] = document[k]

\* A save() call was made in this step.
SaveStep == op' = "save" /\ saves' = saves + 1

FormatExtension(fmt) ==
    CASE fmt \in {"json", "JSON"} -> <<".", "json">>
      [] fmt \in {"markdown", "Markdown"} -> <<".", "md">>
      [] fmt \in {"csv", "CSV"} -> <<".", "csv">>
      [] fmt \in {"txt", "TXT"} -> <<".", "txt">>
      [] OTHER -> <<>>

(* C19: a successful save writes exactly one file in the output directory;    *)
(* its name is the given name, or with none the document's filename without   *)
(* its extension, '_' and the YYYYMMDD_HHMMSS timestamp, followed by the       *)
(* extension of the format: .json, .md, .csv or .txt.                         *)
C19_OneFilePerSave ==
    [][(SaveStep /\ ~ret'.raised) =>
          /\ ret'.path =
                (IF ret'.filename # <<>> THEN ret'.filename
                 ELSE <<Stem, "_", TimeStamps[clock + 1]>>)
                \o FormatExtension(ret'.output_format)
          /\ DOMAIN outputs' = DOMAIN outputs \cup {ret'.path}
          /\ outputs'[ret'.path].kind = "file"
          /\ outputs'[ret'.path].mtime = clock
          /\ \A name \in DOMAIN outputs \ {ret'.path} : outputs'[name] = outputs[name]]_vars

\* A document was saved as markdown without a name into a directory that
\* held a file.
C19_Witness ==
    /\ Saved(<<".", "md">>)
    /\ ret.filename = <<>>
    /\ ret.path = <<Stem, "_", "20240101_000001", ".", "md">>
    /\ Cardinality(DOMAIN outputs) = 2

(* C20: save with a format that is none of json, markdown, csv, txt, case     *)
(* ignored, raises the unsupported-format error and leaves the output         *)
(* directory as it was; with one of the four it raises nothing.               *)
C20_UnsupportedFormatWritesNothing ==
    [][SaveStep =>
          IF FormatExtension(ret'.output_format) = <<>>
          THEN ret'.raised /\ ret'.error = "ValueError" /\ outputs' = outputs
          ELSE ~ret'.raised]_vars

\* save with the format xml failed on a directory that held a file.
C20_Witness ==
    /\ op = "save"
    /\ ret.raised
    /\ ret.output_format = "xml"
    /\ outputs # NoOutputs

KnownMime == file.mime \in DOMAIN MIME_TYPE_MAP

(* C30: the content-type check rejects only when the sniffed MIME type is one *)
(* of the seven known types and its family differs from the extension's: a    *)
(* non-empty file within the size limit with an allowed extension whose MIME  *)
(* type is unknown, or whose sniffing throws, is accepted.                    *)
C30_UnknownContentPasses ==
    Validated =>
        /\ (ReachesContentType /\ ~KnownMime) => ret = Accept
        /\ (~ret.ok /\ ret.reason \in CheckReasons(5)) =>
              /\ hasMagic
              /\ KnownMime
              /\ FamilyOf(Extension) # FamilyOf(MIME_TYPE_MAP[file.mime])

\* A .pdf file sniffed as text/plain was accepted with the magic-byte library.
C30_Witness ==
    /\ Validated
    /\ hasMagic
    /\ Suffix(file.name) = <<".", "pdf">>
    /\ file.mime = "text/plain"
    /\ ret = Accept

(* C28: with the default configuration every path the validator accepts has a *)
(* family with a registered parser whose declared extensions contain the      *)
(* path's extension: after a successful validation dispatch never fails with  *)
(* 'No parser available' and construction never fails.                        *)
C28_ValidatedPathsHaveParsers ==
    (pc = "done" /\ op \in EngineOps /\ FailedChecks = {}) =>
        /\ ret.outcome \notin {"ValidationError", "ValueError", "FileNotFoundError",
                               "ImportError"}
        /\ ret.reason # "No parser available for file type"
        /\ ret.parser \in ParserClasses
        /\ Extension \in Range(ClassExtensions(ret.parser))
        /\ get_file_type(file.name) \in DOMAIN PARSER_REGISTRY

\* engine.parse on a valid report.xls built the Excel parser and returned.
C28_Witness ==
    /\ pc = "done"
    /\ op = "parse"
    /\ FailedChecks = {}
    /\ file.name = <<Stem, ".", "xls">>
    /\ ret.outcome = "returned"
    /\ ret.parser = "ExcelParser"

\* The content keys the specification gives each file_type.
ShapeKeys(file_type) ==
    CASE file_type = "pdf" -> {"pages"}
      [] file_type = "word" -> {"paragraphs", "sections"}
      [] file_type = "excel" -> {"sheets"}
      [] file_type = "powerpoint" -> {"slides"}

AllShapeKeys == UNION {ShapeKeys(Families[i]) : i \in DOMAIN Families}

(* C25: every document a parser returns, after a soft failure too, carries    *)
(* the content keys of its file_type (pages; paragraphs and sections; sheets; *)
(* slides) and none of the content keys of another file_type.                 *)
C25_ContentShapeByFileType ==
    Parsed =>
        /\ ShapeKeys(ret.value.file_type) \subseteq DOMAIN ret.value.content
        /\ DOMAIN ret.value.content \cap AllShapeKeys \subseteq ShapeKeys(ret.value.file_type)

\* The slides that came out of the last operation.
SlidesOut ==
    IF pc = "done" /\ op = "extract_slides" THEN ret.value
    ELSE IF pc = "done" /\ op = "parse" /\ variant = "PowerPointParser"
              /\ "slides" \in DOMAIN ret.value.content
    THEN ret.value.content.slides
    ELSE <<>>

NonBlankText(shape) == "text" \in DOMAIN shape /\ shape.text \notin {"", " "}

NamesOf(seq) == [k \in DOMAIN seq |-> seq[k].name]

FlagCount(info) ==
    Cardinality({flag \in {"is_image", "is_table", "is_chart"} : info[flag]})

(* C26: for every slide the shapes list has one descriptor per shape in shape *)
(* order; the content is the text of the shapes with non-blank text; images,  *)
(* tables and charts hold exactly the shapes with the matching flag, and a    *)
(* shape carries at most one of the three flags.                              *)
C26_ShapesFanOut ==
    \A i \in DOMAIN SlidesOut :
        LET slide == SlidesOut[i]
            shapes == SlideShapes(src, i)
            withText == SelectSeq(shapes, NonBlankText)
            pictures == SelectSeq(shapes, LAMBDA sh : sh.shape_type = "PICTURE")
            tables == SelectSeq(shapes, LAMBDA sh : sh.has_table)
            charts == SelectSeq(shapes, LAMBDA sh : sh.has_chart)
        IN  /\ NamesOf(slide.shapes) = NamesOf(shapes)
            /\ slide.content = [k \in DOMAIN withText |-> withText[k].text]
            /\ NamesOf(slide.images) = NamesOf(pictures)
            /\ slide.tables = [k \in DOMAIN tables |-> TableData(tables[k].cells)]
            /\ NamesOf(slide.charts) = NamesOf(charts)
            /\ \A k \in DOMAIN slide.shapes :
                  /\ FlagCount(slide.shapes[k]) <= 1
                  /\ slide.shapes[k].is_image <=> shapes[k].shape_type = "PICTURE"
                  /\ slide.shapes[k].is_table <=> shapes[k].has_table
                  /\ slide.shapes[k].is_chart <=> shapes[k].has_chart

\* A slide with text, two pictures, a table and a chart was extracted.
C26_Witness ==
    /\ pc = "done"
    /\ op = "extract_slides"
    /\ Len(ret.value) = 2
    /\ ret.value[1].content = <<"text">>
    /\ Len(ret.value[1].shapes) = 5
    /\ Len(ret.value[1].images) = 2
    /\ Len(ret.value[1].tables) = 1
    /\ Len(ret.value[1].charts) = 1
    /\ ret.value[2].content = <<>>

\* Every value of every row is empty, a primitive or a string.
PrimitiveRows(rows) ==
    \A r \in DOMAIN rows : \A c \in DOMAIN rows[r] : rows[r][c] \notin NonPrimitive

\* The cell values of the sheet data are those of the worksheet, temporal
\* ones as ISO-8601 strings.
SheetDataConverted ==
    \A i \in DOMAIN ret.value.content.sheets :
        /\ PrimitiveRows(ret.value.content.sheets[i].data)
        /\ \A r \in DOMAIN src.grids[i].cells : \A c \in DOMAIN src.grids[i].cells[r] :
              src.grids[i].cells[r][c] \in Temporal =>
                 \E k \in DOMAIN ret.value.content.sheets[i].data :
                    ret.value.content.sheets[i].data[k][c] = "2024-01-01T00:00:00"

(* C27: every cell value the Excel parser puts into a document, in            *)
(* content.sheets[*].data and in tables[*].headers and tables[*].data, is     *)
(* empty, a primitive or a string: temporal values are replaced by their      *)
(* ISO-8601 string and other non-primitive values by their string form.       *)
C27_ExcelCellsPrimitive ==
    (Parsed /\ variant = "ExcelParser" /\ ret.value.errors = <<>>) =>
        /\ SheetDataConverted
        /\ \A i \in DOMAIN ret.value.tables :
              /\ PrimitiveRows(<<ret.value.tables[i].headers>>)
              /\ PrimitiveRows(ret.value.tables[i].data)

(* C24: parsed_at is set once, to the time the parser creates the document,   *)
(* and no later step changes it: not the extraction and its soft-failure      *)
(* handling, not enrichment, not the conversion to a dict, rendering or       *)
(* saving.                                                                    *)
C24_ParsedAtSetOnce ==
    /\ [][(pc = "ready" /\ op' = "parse") => document'.parsed_at = clock]_vars
    /\ [][HasDocument => document'.parsed_at = document.parsed_at]_vars
    /\ [](Saved(<<".", "json">>) =>
             outputs[ret.path].content.parsed_at = document.parsed_at)

\* An enriched document was saved as json a second after it was parsed.
C24_Witness ==
    /\ Saved(<<".", "json">>)
    /\ clock = document.parsed_at + 1
    /\ Described(document) # {}
    /\ outputs[ret.path].mtime = clock

AiKeys == {"description", "ai_analyzed", "ai_error"}

\* The pass set the key of the image.
SetsKey(before, after, key) ==
    /\ key \in DOMAIN after
    /\ key \in DOMAIN before => after[key] # before[key]

\* What one enrichment pass may do to a document.
EnrichmentFrame(before, after) ==
    /\ Len(after.images) = Len(before.images)
    /\ \A i \in DOMAIN before.images :
          LET x == before.images[i]
              y == after.images[i]
          IN  /\ DOMAIN x \subseteq DOMAIN y
              /\ DOMAIN y \subseteq DOMAIN x \cup AiKeys
              /\ \A k \in DOMAIN x \ AiKeys : y[k] = x[k]
              /\ "blob" \notin DOMAIN x => y = x
              /\ ~(SetsKey(x, y, "ai_analyzed") /\ SetsKey(x, y, "ai_error"))
    /\ \A field \in DocumentFields \ {"images"} : after[field] = before[field]

(* C29: image enrichment changes nothing but the description, ai_analyzed and *)
(* ai_error keys of top-level images that carry a blob: the number and order  *)
(* of the images stay, images without a blob are untouched, no pass sets both *)
(* ai_analyzed and ai_error on one image, and filename, file_type, metadata,  *)
(* tables, errors and content, slide image descriptors included, are kept.     *)
C29_EnrichmentFrame ==
    [][(pc = "parsed" /\ op' = "enrich") => EnrichmentFrame(document, document')]_vars

\* A presentation with a picture with bytes and one without was enriched: the
\* first got its description, the second is as parsed.
C29_Witness ==
    /\ pc = "parsed"
    /\ op = "enrich"
    /\ Len(document.images) = 2
    /\ Get(document.images[1], "ai_analyzed") # None
    /\ document.images[2] = parse(variant, file.name, src, 0).value.images[2]
    /\ Len(document.content.slides[1].images) = 2

\* No writer moved and no time passed: the step is a call of list_outputs,
\* delete_output or clear_outputs.
CallStep(name) ==
    /\ op' = name
    /\ pc' = pc
    /\ clock' = clock
    /\ op = name => ret' # ret

(* C21: delete_output(name) returns true exactly when a regular file of that  *)
(* name exists and removes only that file, otherwise it returns false and     *)
(* changes nothing; clear_outputs returns the number of regular files and     *)
(* leaves none; list_outputs holds exactly the files that are in the          *)
(* directory.                                                                 *)
C21_DeleteAndClear ==
    /\ [][CallStep("delete_output") =>
             IF ret'.filename \in RegularFiles(outputs)
             THEN /\ ret'.deleted
                  /\ DOMAIN outputs' = DOMAIN outputs \ {ret'.filename}
                  /\ \A name \in DOMAIN outputs' : outputs'[name] = outputs[name]
             ELSE ~ret'.deleted /\ outputs' = outputs]_vars
    /\ [][(op' = "clear_outputs" /\ pc' = pc /\ clock' = clock) =>
             /\ ret'.count = Cardinality(RegularFiles(outputs))
             /\ RegularFiles(outputs') = {}
             /\ DOMAIN outputs' = DOMAIN outputs \ RegularFiles(outputs)]_vars
    /\ [][(\E w \in Writers : pc[w].at = "named" /\ pc'[w] = Idle) =>
             /\ RegularFiles(outputs) \subseteq RegularFiles(outputs')
             /\ Cardinality(RegularFiles(outputs') \ RegularFiles(outputs)) <= 1]_vars
    /\ [](op = "list_outputs" =>
             /\ {ret.files[i].filename : i \in DOMAIN ret.files} = RegularFiles(outputs)
             /\ Len(ret.files) = Cardinality(RegularFiles(outputs)))

\* One of two files was deleted; the other and the subdirectory are still
\* there.
C21_Witness ==
    /\ op = "delete_output"
    /\ ret.deleted
    /\ ret.filename \notin DOMAIN outputs
    /\ Cardinality(RegularFiles(outputs)) = 1
    /\ <<"archive">> \in DOMAIN outputs

(* C22: list_outputs returns one entry for every regular file of the output   *)
(* directory and none for anything else, and for any two adjacent entries the *)
(* earlier one was modified no earlier than the later one.                    *)
C22_ListedByModificationTime ==
    op = "list_outputs" =>
        /\ \A name \in RegularFiles(outputs) :
              Cardinality({i \in DOMAIN ret.files : ret.files[i].filename = name}) = 1
        /\ \A i \in DOMAIN ret.files : ret.files[i].filename \in RegularFiles(outputs)
        /\ \A i \in 1..(Len(ret.files) - 1) :
              outputs[ret.files[i].filename].mtime
                 >= outputs[ret.files[i + 1].filename].mtime

\* Two writers hold the same path.
SamePath(v, w) == pc[v].at = "named" /\ pc[w].at = "named" /\ pc[v].path = pc[w].path

(* C23: two saves without an explicit filename for the same base name and     *)
(* format whose timestamps fall in the same second get the same path, and     *)
(* both write it, so that the directory holds one file for the two; saves     *)
(* that differ in base name, format or second never get the same path.        *)
C23_SameSecondSamePath ==
    /\ [](\A v \in Writers, w \in Writers :
             (pc[v].at = "named" /\ pc[w].at = "named") =>
                (pc[v].path = pc[w].path <=>
                    /\ pc[v].base = pc[w].base
                    /\ pc[v].output_format = pc[w].output_format
                    /\ pc[v].now = pc[w].now))
    /\ [][\A w \in Writers :
             (pc[w].at = "named" /\ pc'[w] = Idle) =>
                /\ DOMAIN outputs' = DOMAIN outputs \cup {pc[w].path}
                /\ outputs'[pc[w].path].content = pc[w].content
                /\ \A name \in DOMAIN outputs \ {pc[w].path} :
                      outputs'[name] = outputs[name]]_vars

\* Both writers took the path report_<second>.json in the same second, one for
\* report.pdf and one for report.docx; the first has written its file and the
\* second is about to replace it.
C23_Witness ==
    /\ pc[1] = Idle
    /\ pc[2].at = "named"
    /\ saves = 2
    /\ op = "save"
    /\ ret.path = pc[2].path
    /\ pc[2].path \in RegularFiles(outputs)
    /\ outputs[pc[2].path].content # pc[2].content
    /\ outputs[pc[2].path].mtime = clock
    /\ pc[2].now = LocalTime(zone, clock)

====
